---- MODULE Spec2Model ----
(***************************************************************************)
(* Horse Herd Optimization for the permutation flow shop (HHOA-FSSP).      *)
(* Solution (job order + lazily cached makespan), Horse (agent),           *)
(* HorseHerd (population + leader) and HHOA (the optimizer driver).        *)
(* Jobs are numbered from 0 as in the code; a job order is a TLA+ sequence,*)
(* so position p of the code is index p+1 here.                            *)
(***************************************************************************)
EXTENDS Integers, Sequences, FiniteSets, TLC

VARIABLES
    pt,       \* ProblemInstance::processing_times_ [job][machine]
    sol,      \* one Solution object: job_sequence_, makespan_, makespan_calculated_
    srch,     \* position inside a running Solution::applyInsertionSearch, and its locals
    outcome,  \* the last operation on sol and what it returned or threw
    xo,       \* one crossover call of a Horse: the parents, the operator, the offspring or the exception
    herd_size_,   \* HorseHerd::herd_size_
    horses_,  \* HorseHerd::horses_
    leader_,  \* HorseHerd::leader_
    diversity_,   \* HorseHerd::diversity_, in thousandths
    generation_,  \* HorseHerd::generation_
    parameters_,  \* HHOA::parameters_, rates in thousandths
    statistics_,  \* HHOA::statistics_
    pc,       \* where the running HHOA::optimize / optimizeToTarget stands
    run       \* the arguments and locals of the running optimize / optimizeToTarget

vars == <<pt, sol, srch, outcome, xo,
          herd_size_, horses_, leader_, diversity_, generation_,
          parameters_, statistics_, pc, run>>

----------------------------------------------------------------------------
(* Bounds of the model *)

\* largest processing time of the enumerated instances
MaxTime == 1

----------------------------------------------------------------------------
(* Generic helpers *)

Max(a, b) == IF a >= b THEN a ELSE b
Min(a, b) == IF a <= b THEN a ELSE b

Range(s) == {s[i] : i \in 1..Len(s)}

\* std::swap of two positions (1-based) of a vector
SwapAt_Overwrite(s, i, j) == [s EXCEPT ![i] = s[j]]

SwapAt(s, i, j) == [s EXCEPT ![i] = s[j], ![j] = s[i]]

\* vector::erase(begin() + p) for a 0-based p
EraseAt(s, p) == [k \in 1..(Len(s) - 1) |-> IF k <= p THEN s[k] ELSE s[k + 1]]

\* vector::insert(begin() + p, x) for a 0-based p
InsertAt(s, p, x) ==
    [k \in 1..(Len(s) + 1) |-> IF k <= p THEN s[k] ELSE IF k = p + 1 THEN x ELSE s[k - 1]]

\* all sequences of length n over S
SeqsOf(S, n) == [1..n -> S]

\* all permutations of 0..n-1 as sequences
Perms(n) == {s \in SeqsOf(0..(n - 1), n) : Range(s) = 0..(n - 1)}

----------------------------------------------------------------------------
(* ProblemInstance *)

getNumJobs == Len(pt)
getNumMachines == Len(pt[1])

getProcessingTime(job, machine) == pt[job + 1][machine + 1]

\* the instance of the end-to-end scenario: 4 jobs, 3 machines
ExampleInstance == << <<5, 3, 4>>, <<4, 5, 3>>, <<3, 4, 5>>, <<5, 4, 3>> >>

\* every n x m matrix of processing times in 0..MaxTime
Matrices(n, m) == SeqsOf(SeqsOf(0..MaxTime, m), n)

\* the instances the makespan evaluation is checked on
EvalInstances == Matrices(1, 1) \cup Matrices(2, 2) \cup Matrices(3, 2) \cup {ExampleInstance}

\* the instances a Solution object is exercised on
SolutionInstances ==
    { << <<2>> >>,
      << <<1, 2>>, <<2, 1>> >>,
      << <<1, 3>>, <<2, 1>>, <<3, 2>> >>,
      << <<3, 1>>, <<1, 1>>, <<1, 3>> >>,
      << <<0, 0>>, <<0, 0>>, <<0, 0>> >>,
      ExampleInstance }

----------------------------------------------------------------------------
(* Solution *)

\* Solution::isValid, on a job order
isValid(seq) ==
    /\ Len(seq) = getNumJobs
    /\ \A i \in 1..Len(seq) : seq[i] >= 0 /\ seq[i] < getNumJobs
    /\ \A i, j \in 1..Len(seq) : i # j => seq[i] # seq[j]

\* calculateMakespan with the last case reading only the previous job's
\* completion on the same machine (the max with the previous machine lost)
calculateMakespan_NoMax(seq) ==
    LET n == Len(seq)
        m == getNumMachines
        ct[pos \in 0..(n - 1), machine \in 0..(m - 1)] ==
            LET processing_time == getProcessingTime(seq[pos + 1], machine)
            IN  IF pos = 0 /\ machine = 0 THEN processing_time
                ELSE IF pos = 0 THEN ct[pos, machine - 1] + processing_time
                ELSE IF machine = 0 THEN ct[pos - 1, machine] + processing_time
                ELSE ct[pos - 1, machine] + processing_time
    IN  IF n > 0 THEN ct[n - 1, m - 1] ELSE 0

\* calculateMakespan waiting for the machine only when the job arrives later
calculateMakespan_Unmaxed(seq) ==
    LET n == Len(seq)
        m == getNumMachines
        ct[pos \in 0..(n - 1), machine \in 0..(m - 1)] ==
            LET processing_time == getProcessingTime(seq[pos + 1], machine)
            IN  IF pos = 0 /\ machine = 0 THEN processing_time
                ELSE IF pos = 0 THEN ct[pos, machine - 1] + processing_time
                ELSE IF machine = 0 THEN ct[pos - 1, machine] + processing_time
                ELSE IF ct[pos, machine - 1] > ct[pos - 1, machine]
                     THEN ct[pos, machine - 1] + processing_time
                     ELSE processing_time
    IN  IF n > 0 THEN ct[n - 1, m - 1] ELSE 0

\* Solution::calculateMakespan: the completion-time table, filled position by
\* position and machine by machine with the four cases of the code
calculateMakespan(seq) ==
    LET n == Len(seq)
        m == getNumMachines
        ct[pos \in 0..(n - 1), machine \in 0..(m - 1)] ==
            LET processing_time == getProcessingTime(seq[pos + 1], machine)
            IN  IF pos = 0 /\ machine = 0 THEN processing_time
                ELSE IF pos = 0 THEN ct[pos, machine - 1] + processing_time
                ELSE IF machine = 0 THEN ct[pos - 1, machine] + processing_time
                ELSE Max(ct[pos - 1, machine], ct[pos, machine - 1]) + processing_time
    IN  IF n > 0 THEN ct[n - 1, m - 1] ELSE 0

\* Solution::Solution(job_sequence, instance): nothing cached yet
NewSolution(seq) ==
    [job_sequence_ |-> seq, makespan_ |-> -1, makespan_calculated_ |-> FALSE]

\* Solution::invalidateCache
invalidateCache(s) == [s EXCEPT !.makespan_ = -1, !.makespan_calculated_ = FALSE]

\* Solution::swapJobs, setJobAt, setJobSequence with arguments in range
swapJobs_SetOnly(s, pos1, pos2) ==
    invalidateCache([s EXCEPT !.job_sequence_[pos1 + 1] = s.job_sequence_[pos2 + 1]])

swapJobs(s, pos1, pos2) ==
    invalidateCache([s EXCEPT !.job_sequence_ = SwapAt(@, pos1 + 1, pos2 + 1)])

setJobAt(s, position, job) ==
    invalidateCache([s EXCEPT !.job_sequence_[position + 1] = job])

setJobSequence(s, sequence) ==
    invalidateCache([s EXCEPT !.job_sequence_ = sequence])

\* Solution::getMakespan: the value returned and the object afterwards
getMakespanValue(s) ==
    IF s.makespan_calculated_ THEN s.makespan_ ELSE calculateMakespan(s.job_sequence_)

getMakespanObject(s) ==
    IF s.makespan_calculated_ THEN s
    ELSE [s EXCEPT !.makespan_ = calculateMakespan(s.job_sequence_),
                   !.makespan_calculated_ = TRUE]

\* Solution::Solution(other) and operator=: the cache is copied with the order
CopySolution(s) == s

\* the orders std::shuffle can leave in job_sequence_
Shuffles(seq) == {[i \in 1..Len(seq) |-> seq[p[i] + 1]] : p \in Perms(Len(seq))}

\* Solution::initializeGreedy: jobs by ascending (total processing time, job)
TotalTime(job) ==
    LET sum[k \in 0..getNumMachines] ==
            IF k = 0 THEN 0 ELSE sum[k - 1] + getProcessingTime(job, k - 1)
    IN  sum[getNumMachines]

GreedyBefore(a, b) ==
    TotalTime(a) < TotalTime(b) \/ (TotalTime(a) = TotalTime(b) /\ a < b)

initializeGreedyOrder ==
    [i \in 1..getNumJobs |->
        CHOOSE job \in 0..(getNumJobs - 1) :
            Cardinality({b \in 0..(getNumJobs - 1) : GreedyBefore(b, job)}) = i - 1]

\* the relocate move of applyInsertionSearch / createInsertNeighbor: erase the
\* job at position i, insert it at (j > i ? j - 1 : j)
RelocateTarget(i, j) == IF j > i THEN j - 1 ELSE j

Relocate(seq, i, j) == InsertAt(EraseAt(seq, i), RelocateTarget(i, j), seq[i + 1])

\* the revert of applyInsertionSearch: erase at (j > i ? j - 1 : j), insert at i
RelocateBack(seq, i, j) ==
    InsertAt(EraseAt(seq, RelocateTarget(i, j)), i, seq[RelocateTarget(i, j) + 1])

\* Solution::createSwapNeighbor for the drawn positions
createSwapNeighbor(s, pos1, pos2) == swapJobs(CopySolution(s), pos1, pos2)

\* Solution::createInsertNeighbor for the drawn positions
createInsertNeighbor(s, from_pos, to_pos) ==
    IF from_pos # to_pos
    THEN invalidateCache([CopySolution(s) EXCEPT
                              !.job_sequence_ = Relocate(@, from_pos, to_pos)])
    ELSE CopySolution(s)

\* Solution::apply2Opt: every pair i < j in loop order; an improving swap is
\* kept and the scan goes on, any other swap is reverted. pairs is the list
\* of pairs still to try, st the object and the loop's locals.
Pairs2Opt(n) ==
    LET idx == {<<i, j>> \in (0..(n - 1)) \X (0..(n - 1)) : i < j}
        rank(p) == Cardinality({q \in idx : q[1] < p[1] \/ (q[1] = p[1] /\ q[2] < p[2])})
    IN  [k \in 1..Cardinality(idx) |-> CHOOSE p \in idx : rank(p) = k - 1]

RECURSIVE apply2OptFrom(_, _, _)
apply2OptFrom(st, pairs, k) ==
    IF k > Len(pairs) THEN st
    ELSE LET i == pairs[k][1]
             j == pairs[k][2]
             swapped == swapJobs(st.s, i, j)
             new_makespan == getMakespanValue(swapped)
         IN  IF new_makespan < st.current_makespan
             THEN apply2OptFrom([s |-> getMakespanObject(swapped),
                                 current_makespan |-> new_makespan,
                                 improved |-> TRUE], pairs, k + 1)
             ELSE apply2OptFrom([st EXCEPT !.s = swapJobs(getMakespanObject(swapped), i, j)],
                                pairs, k + 1)

apply2Opt(s) ==
    apply2OptFrom([s |-> getMakespanObject(s),
                   current_makespan |-> getMakespanValue(s),
                   improved |-> FALSE],
                  Pairs2Opt(Len(s.job_sequence_)), 1)

----------------------------------------------------------------------------
(* Operations on one Solution object, as a caller of the class can issue   *)
(* them.  Solution::applyInsertionSearch is followed statement by          *)
(* statement (srch is its position), so that the cache it reads between    *)
(* its own moves is part of the state.                                     *)

Idle == srch.pc = "idle"

NoSearch == [pc |-> "idle", i |-> 0, j |-> 0, current_makespan |-> 0, improved |-> FALSE]

Jobs == 0..(getNumJobs - 1)

\* positions a caller may pass, one below and one above the valid range included
Positions == -1..getNumJobs

InRange(position) == position >= 0 /\ position < Len(sol.job_sequence_)

\* nothing but the instance and a Solution exists: no crossover has run, no
\* herd and no optimizer have been constructed
NoCrossover ==
    [op |-> "none", parent1 |-> <<>>, parent2 |-> <<>>, point1 |-> -1, point2 |-> -1,
     offspring |-> <<>>, threw |-> FALSE]

NoHerd ==
    /\ herd_size_ = 0
    /\ horses_ = <<>>
    /\ leader_ = [solution_ |-> <<>>, best_solution_ |-> <<>>, best_fitness_ |-> 0]
    /\ diversity_ = 0
    /\ generation_ = 0

NoOptimizer ==
    /\ parameters_ = [population_size |-> 0]
    /\ statistics_ = [iterations_executed |-> 0]
    /\ pc = "none"
    /\ run = [mode |-> "none"]

InitSol ==
    /\ pt \in SolutionInstances
    /\ sol = NewSolution([i \in 1..Len(pt) |-> i - 1])
    /\ srch = NoSearch
    /\ outcome = [op |-> "Solution", result |-> "ok"]
    /\ xo = NoCrossover
    /\ NoHerd
    /\ NoOptimizer

SetJobSequence ==
    /\ Idle
    /\ \E sequence \in SeqsOf(Jobs, getNumJobs) \cup {<<>>} :
          IF Len(sequence) # getNumJobs
          THEN /\ outcome' = [op |-> "setJobSequence", result |-> "invalid_argument"]
               /\ UNCHANGED sol
          ELSE /\ sol' = setJobSequence(sol, sequence)
               /\ outcome' = [op |-> "setJobSequence", result |-> "ok"]
    /\ UNCHANGED <<pt, srch>>
    /\ UNCHANGED <<xo, herd_size_, horses_, leader_, diversity_, generation_, parameters_, statistics_, pc, run>>

SetJobAt ==
    /\ Idle
    /\ \E position \in Positions, job \in Jobs :
          IF ~InRange(position)
          THEN /\ outcome' = [op |-> "setJobAt", result |-> "out_of_range"]
               /\ UNCHANGED sol
          ELSE /\ sol' = setJobAt(sol, position, job)
               /\ outcome' = [op |-> "setJobAt", result |-> "ok"]
    /\ UNCHANGED <<pt, srch>>
    /\ UNCHANGED <<xo, herd_size_, horses_, leader_, diversity_, generation_, parameters_, statistics_, pc, run>>

SwapJobs ==
    /\ Idle
    /\ \E pos1 \in Positions, pos2 \in Positions :
          IF ~InRange(pos1) \/ ~InRange(pos2)
          THEN /\ outcome' = [op |-> "swapJobs", result |-> "out_of_range",
                              pos1 |-> pos1, pos2 |-> pos2]
               /\ UNCHANGED sol
          ELSE /\ sol' = swapJobs(sol, pos1, pos2)
               /\ outcome' = [op |-> "swapJobs", result |-> "ok", pos1 |-> pos1, pos2 |-> pos2]
    /\ UNCHANGED <<pt, srch>>
    /\ UNCHANGED <<xo, herd_size_, horses_, leader_, diversity_, generation_, parameters_, statistics_, pc, run>>

GetMakespan ==
    /\ Idle
    /\ outcome' = [op |-> "getMakespan", result |-> getMakespanValue(sol)]
    /\ sol' = getMakespanObject(sol)
    /\ UNCHANGED <<pt, srch>>
    /\ UNCHANGED <<xo, herd_size_, horses_, leader_, diversity_, generation_, parameters_, statistics_, pc, run>>

InitializeRandom ==
    /\ Idle
    /\ \E shuffled \in Shuffles(sol.job_sequence_) :
          sol' = invalidateCache([sol EXCEPT !.job_sequence_ = shuffled])
    /\ outcome' = [op |-> "initializeRandom", result |-> "ok"]
    /\ UNCHANGED <<pt, srch>>
    /\ UNCHANGED <<xo, herd_size_, horses_, leader_, diversity_, generation_, parameters_, statistics_, pc, run>>

InitializeGreedy ==
    /\ Idle
    /\ sol' = invalidateCache([sol EXCEPT !.job_sequence_ = initializeGreedyOrder])
    /\ outcome' = [op |-> "initializeGreedy", result |-> "ok"]
    /\ UNCHANGED <<pt, srch>>
    /\ UNCHANGED <<xo, herd_size_, horses_, leader_, diversity_, generation_, parameters_, statistics_, pc, run>>

\* sol = sol.createSwapNeighbor(): a copy of sol (cache included) with two
\* positions swapped is assigned back, as Horse::mutate and Horse::roam do
AssignSwapNeighbor ==
    /\ Idle
    /\ \E pos1 \in Jobs, pos2 \in Jobs : sol' = CopySolution(createSwapNeighbor(sol, pos1, pos2))
    /\ outcome' = [op |-> "createSwapNeighbor", result |-> "ok"]
    /\ UNCHANGED <<pt, srch>>
    /\ UNCHANGED <<xo, herd_size_, horses_, leader_, diversity_, generation_, parameters_, statistics_, pc, run>>

\* sol = sol.createInsertNeighbor()
AssignInsertNeighbor ==
    /\ Idle
    /\ \E from_pos \in Jobs, to_pos \in Jobs :
          sol' = CopySolution(createInsertNeighbor(sol, from_pos, to_pos))
    /\ outcome' = [op |-> "createInsertNeighbor", result |-> "ok"]
    /\ UNCHANGED <<pt, srch>>
    /\ UNCHANGED <<xo, herd_size_, horses_, leader_, diversity_, generation_, parameters_, statistics_, pc, run>>

Apply2Opt ==
    /\ Idle
    /\ sol' = apply2Opt(sol).s
    /\ outcome' = [op |-> "apply2Opt", result |-> apply2Opt(sol).improved]
    /\ UNCHANGED <<pt, srch>>
    /\ UNCHANGED <<xo, herd_size_, horses_, leader_, diversity_, generation_, parameters_, statistics_, pc, run>>

\* the (i, j) the two nested loops of applyInsertionSearch visit after (i, j),
\* skipping i == j; i = n when the loops are over
LoopPairs(n) == {<<i, j>> \in (0..(n - 1)) \X (0..(n - 1)) : i # j}

PairAfter(n, i, j) ==
    LET later == {p \in LoopPairs(n) : p[1] > i \/ (p[1] = i /\ p[2] > j)}
    IN  IF later = {} THEN <<n, 0>>
        ELSE CHOOSE p \in later :
                \A q \in later : p[1] < q[1] \/ (p[1] = q[1] /\ p[2] <= q[2])

\* lines 174-175: improved = false; current_makespan = getMakespan()
InsertionSearchStart ==
    /\ Idle
    /\ sol' = getMakespanObject(sol)
    /\ LET first == PairAfter(Len(sol.job_sequence_), 0, -1)
       IN  srch' = [pc |-> "loop", i |-> first[1], j |-> first[2],
                    current_makespan |-> getMakespanValue(sol), improved |-> FALSE]
    /\ outcome' = [op |-> "applyInsertionSearch", result |-> "running"]
    /\ UNCHANGED pt
    /\ UNCHANGED <<xo, herd_size_, horses_, leader_, diversity_, generation_, parameters_, statistics_, pc, run>>

\* lines 182-184: the job at i is erased and inserted at (j > i ? j - 1 : j),
\* directly in job_sequence_; the cache is not touched
InsertionSearchMove ==
    /\ srch.pc = "loop"
    /\ srch.i < Len(sol.job_sequence_)
    /\ sol' = [sol EXCEPT !.job_sequence_ = Relocate(@, srch.i, srch.j)]
    /\ srch' = [srch EXCEPT !.pc = "moved"]
    /\ UNCHANGED <<pt, outcome>>
    /\ UNCHANGED <<xo, herd_size_, horses_, leader_, diversity_, generation_, parameters_, statistics_, pc, run>>

\* lines 186-195: new_makespan = getMakespan(); keep the move if it is smaller,
\* else move the job back and invalidate the cache; then the next (i, j)
InsertionSearchEvaluate ==
    /\ srch.pc = "moved"
    /\ LET new_makespan == getMakespanValue(sol)
           next == PairAfter(Len(sol.job_sequence_), srch.i, srch.j)
       IN  /\ IF new_makespan < srch.current_makespan
              THEN /\ sol' = getMakespanObject(sol)
                   /\ srch' = [pc |-> "loop", i |-> next[1], j |-> next[2],
                               current_makespan |-> new_makespan, improved |-> TRUE]
              ELSE /\ sol' = invalidateCache([getMakespanObject(sol) EXCEPT
                                 !.job_sequence_ = RelocateBack(@, srch.i, srch.j)])
                   /\ srch' = [srch EXCEPT !.pc = "loop", !.i = next[1], !.j = next[2]]
    /\ UNCHANGED <<pt, outcome>>
    /\ UNCHANGED <<xo, herd_size_, horses_, leader_, diversity_, generation_, parameters_, statistics_, pc, run>>

\* line 199: return improved
InsertionSearchReturn ==
    /\ srch.pc = "loop"
    /\ srch.i >= Len(sol.job_sequence_)
    /\ outcome' = [op |-> "applyInsertionSearch", result |-> srch.improved]
    /\ srch' = NoSearch
    /\ UNCHANGED <<pt, sol>>
    /\ UNCHANGED <<xo, herd_size_, horses_, leader_, diversity_, generation_, parameters_, statistics_, pc, run>>

NextSol ==
    \/ SetJobSequence
    \/ SetJobAt
    \/ SwapJobs
    \/ GetMakespan
    \/ InitializeRandom
    \/ InitializeGreedy
    \/ AssignSwapNeighbor
    \/ AssignInsertNeighbor
    \/ Apply2Opt
    \/ InsertionSearchStart
    \/ InsertionSearchMove
    \/ InsertionSearchEvaluate
    \/ InsertionSearchReturn

SpecSol == InitSol /\ [][NextSol]_vars

TypeSol ==
    /\ Len(sol.job_sequence_) = getNumJobs
    /\ sol.makespan_calculated_ \in BOOLEAN

----------------------------------------------------------------------------
(* The makespan evaluator alone: an instance and a job order are drawn, a   *)
(* Solution is built on them and evaluated.                                 *)

InitEval ==
    /\ pt \in EvalInstances
    /\ sol \in {NewSolution(order) : order \in Perms(Len(pt))}
    /\ srch = NoSearch
    /\ outcome = [op |-> "Solution", result |-> "ok"]
    /\ xo = NoCrossover
    /\ NoHerd
    /\ NoOptimizer

NextEval == GetMakespan

SpecEval == InitEval /\ [][NextEval]_vars

----------------------------------------------------------------------------
(* A ProblemInstance under construction: the processing times are entered    *)
(* one by one with setProcessingTime, as loadFromFile and generateRandom do. *)

MaxProcessingTime == 2

\* ProblemInstance::ProblemInstance(num_jobs, num_machines): all times are 0
NewInstance(num_jobs, num_machines) == [job \in 1..num_jobs |-> [machine \in 1..num_machines |-> 0]]

\* the dimensions an instance is built with
InstanceShapes == {<<2, 2>>, <<3, 2>>, <<2, 3>>}

\* ProblemInstance::setProcessingTime: the exception it throws, "ok" when none
setProcessingTimeThrows(job, machine, time) ==
    IF job < 0 \/ job >= getNumJobs \/ machine < 0 \/ machine >= getNumMachines
    THEN "out_of_range"
    ELSE IF time < 0 THEN "invalid_argument"
    ELSE "ok"

setProcessingTime(job, machine, time) == [pt EXCEPT ![job + 1][machine + 1] = time]

InitInstance ==
    /\ pt \in {NewInstance(shape[1], shape[2]) : shape \in InstanceShapes}
    /\ sol \in {NewSolution(order) : order \in Perms(Len(pt))}
    /\ srch = NoSearch
    /\ outcome = [op |-> "ProblemInstance", result |-> "ok", raised |-> FALSE]
    /\ xo = NoCrossover
    /\ NoHerd
    /\ NoOptimizer

SetProcessingTime ==
    \E job \in -1..getNumJobs, machine \in -1..getNumMachines, time \in -1..MaxProcessingTime :
        LET status == setProcessingTimeThrows(job, machine, time)
        IN  /\ pt' = IF status = "ok" THEN setProcessingTime(job, machine, time) ELSE pt
            /\ outcome' = [op |-> "setProcessingTime", result |-> status,
                           raised |-> status = "ok" /\ time > getProcessingTime(job, machine)]
            /\ UNCHANGED <<sol, srch>>
            /\ UNCHANGED <<xo, herd_size_, horses_, leader_, diversity_, generation_, parameters_, statistics_, pc, run>>

NextInstance == SetProcessingTime

SpecInstance == InitInstance /\ [][NextInstance]_vars

----------------------------------------------------------------------------
(* The two crossover operators of Horse. Positions are 0-based as in the    *)
(* code; an empty slot of the offspring holds -1. The random draws are      *)
(* parameters.                                                              *)

MaxJobs == 4

\* Random::randInt(min, max): the values it can return; none when min > max,
\* where it throws std::invalid_argument
randInt(min, max) == min..max

randIntThrows(min, max) == min > max

\* the first empty position at or after from, size when there is none
nextEmpty(offspring, from) ==
    LET size == Len(offspring)
        empty == {p \in from..(size - 1) : offspring[p + 1] = -1}
    IN  IF empty = {} THEN size ELSE CHOOSE p \in empty : \A q \in empty : p <= q

\* the loop "copy segment from parent1"
copySegment(parent1, point1, point2) ==
    LET size == Len(parent1)
        copied == {i \in point1..point2 : parent1[i + 1] >= 0 /\ parent1[i + 1] < size}
    IN  [offspring |-> [p \in 1..size |-> IF (p - 1) \in copied THEN parent1[p] ELSE -1],
         used |-> {parent1[i + 1] : i \in copied}]

\* the loop "fill remaining positions with jobs from parent2 in order", from its i-th round
RECURSIVE fillFromParent2(_, _, _, _)
fillFromParent2(st, parent2, current_pos, i) ==
    LET size == Len(parent2)
    IN  IF ~(i < size /\ current_pos < size) THEN st
        ELSE LET job == parent2[i + 1]
             IN  IF job >= 0 /\ job < size /\ job \notin st.used
                 THEN LET placed == [offspring |-> [st.offspring EXCEPT ![current_pos + 1] = job],
                                     used |-> st.used \cup {job}]
                      IN  fillFromParent2(placed, parent2, nextEmpty(placed.offspring, current_pos + 1), i + 1)
                 ELSE fillFromParent2(st, parent2, current_pos, i + 1)

\* the loop "fill any remaining gaps with unused jobs", from job i
RECURSIVE fillGaps(_, _)
fillGaps(st, i) ==
    LET size == Len(st.offspring)
    IN  IF i >= size THEN st
        ELSE IF i \notin st.used /\ nextEmpty(st.offspring, 0) < size
             THEN fillGaps([offspring |-> [st.offspring EXCEPT ![nextEmpty(st.offspring, 0) + 1] = i],
                            used |-> st.used \cup {i}], i + 1)
             ELSE fillGaps(st, i + 1)

\* orderCrossover filling the remaining positions from parent1
orderCrossover_FromParent1(parent1, parent2, p1, p2) ==
    LET point1 == Min(p1, p2)
        point2 == Max(p1, p2)
        segment == copySegment(parent1, point1, point2)
        filled == fillFromParent2(segment, parent1, nextEmpty(segment.offspring, 0), 0)
    IN  fillGaps(filled, 0).offspring

\* Horse::orderCrossover with the two drawn cut points
orderCrossover(parent1, parent2, p1, p2) ==
    LET point1 == Min(p1, p2)
        point2 == Max(p1, p2)
        segment == copySegment(parent1, point1, point2)
        filled == fillFromParent2(segment, parent2, nextEmpty(segment.offspring, 0), 0)
    IN  fillGaps(filled, 0).offspring

\* one round of the swap loop of partiallyMappedCrossover
pmxSwap(offspring, parent2, pos1, pos2) ==
    LET job_from_parent2 == parent2[pos1 + 1]
        found == {j \in 0..(Len(offspring) - 1) : offspring[j + 1] = job_from_parent2}
    IN  IF found = {} THEN offspring
        ELSE SwapAt(offspring, (CHOOSE j \in found : \A k \in found : j <= k) + 1, pos2 + 1)

\* the swap loop over the drawn position pairs, from round i (1-based)
RECURSIVE pmxSwaps(_, _, _, _)
pmxSwaps(offspring, parent2, draws, i) ==
    IF i > Len(draws) THEN offspring
    ELSE pmxSwaps(pmxSwap(offspring, parent2, draws[i][1], draws[i][2]), parent2, draws, i + 1)

\* Horse::partiallyMappedCrossover with the drawn position pairs, one per swap
partiallyMappedCrossover(parent1, parent2, draws) == pmxSwaps(parent1, parent2, draws, 1)

\* the upper bound of the draw of num_swaps
pmxMaxSwaps(size) == Min(3, size \div 2)

\* Solution(job_sequence, instance) throws unless the sizes agree
SolutionCtorThrows(job_sequence) == Len(job_sequence) # getNumJobs

\* an instance of n jobs on one machine with unit times
UnitInstance(n) == [j \in 1..n |-> <<1>>]

InitX ==
    /\ pt \in {UnitInstance(n) : n \in 1..MaxJobs}
    /\ xo \in {[NoCrossover EXCEPT !.parent1 = a, !.parent2 = b] :
                 a \in Perms(Len(pt)), b \in Perms(Len(pt))}
    /\ sol = NewSolution([i \in 1..Len(pt) |-> i - 1])
    /\ srch = NoSearch
    /\ outcome = [op |-> "Solution", result |-> "ok"]
    /\ NoHerd
    /\ NoOptimizer

OrderCrossover ==
    /\ xo.op = "none"
    /\ LET size == Len(xo.parent1)
       IN  \/ /\ randIntThrows(0, size - 1)
              /\ xo' = [xo EXCEPT !.op = "orderCrossover", !.threw = TRUE]
           \/ \E point1 \in randInt(0, size - 1), point2 \in randInt(0, size - 1) :
                LET offspring == orderCrossover(xo.parent1, xo.parent2, point1, point2)
                IN  xo' = [xo EXCEPT !.op = "orderCrossover",
                                     !.point1 = Min(point1, point2), !.point2 = Max(point1, point2),
                                     !.offspring = offspring,
                                     !.threw = SolutionCtorThrows(offspring)]
    /\ UNCHANGED <<pt, sol, srch, outcome, herd_size_, horses_, leader_, diversity_, generation_, parameters_, statistics_, pc, run>>

PartiallyMappedCrossover ==
    /\ xo.op = "none"
    /\ LET size == Len(xo.parent1)
           positions == randInt(0, size - 1) \X randInt(0, size - 1)
       IN  \/ /\ randIntThrows(1, pmxMaxSwaps(size))
              /\ xo' = [xo EXCEPT !.op = "partiallyMappedCrossover", !.threw = TRUE]
           \/ \E num_swaps \in randInt(1, pmxMaxSwaps(size)) :
                \E draws \in SeqsOf(positions, num_swaps) :
                  LET offspring == partiallyMappedCrossover(xo.parent1, xo.parent2, draws)
                  IN  xo' = [xo EXCEPT !.op = "partiallyMappedCrossover", !.offspring = offspring,
                                       !.threw = SolutionCtorThrows(offspring)]
    /\ UNCHANGED <<pt, sol, srch, outcome, herd_size_, horses_, leader_, diversity_, generation_, parameters_, statistics_, pc, run>>

NextX ==
    \/ OrderCrossover
    \/ PartiallyMappedCrossover

SpecX == InitX /\ [][NextX]_vars

----------------------------------------------------------------------------
(* Horse. A horse is the record of its fields solution_, best_solution_,    *)
(* fitness_, best_fitness_, is_leader_ and stagnation_counter_. Its two     *)
(* Solutions are held as job orders: Horse and HorseHerd reach them only    *)
(* through the constructor, swapJobs, create*Neighbor, initialize* and      *)
(* getMakespan, which keep the makespan cache in step with the order.       *)
(* age_, grazing_ability_ and stamina_ only scale the chance that graze     *)
(* tries a search; that chance stays strictly between 0 and 1, so the two   *)
(* tries are free choices.                                                  *)

\* Horse::calculateFitness
calculateFitness(makespan) == IF makespan > 0 THEN -makespan ELSE -1000000

\* Horse::getMakespan and Horse::getBestMakespan
getMakespan(h) == calculateMakespan(h.solution_)

getBestMakespan(h) == calculateMakespan(h.best_solution_)

\* Horse::updateFitness
updateFitness(h) == [h EXCEPT !.fitness_ = calculateFitness(calculateMakespan(h.solution_))]

\* Horse::updateBest: the value it returns and the horse afterwards
updateBestReturns(h) == h.fitness_ > h.best_fitness_

updateBest(h) ==
    IF h.fitness_ > h.best_fitness_
    THEN [h EXCEPT !.best_solution_ = h.solution_, !.best_fitness_ = h.fitness_]
    ELSE h

\* Horse::Horse(instance) once initializeRandom or initializeGreedy has left
\* the order seq in it
NewHorse(seq) ==
    [solution_ |-> seq, best_solution_ |-> seq,
     fitness_ |-> calculateFitness(calculateMakespan(seq)),
     best_fitness_ |-> calculateFitness(calculateMakespan(seq)),
     is_leader_ |-> FALSE, stagnation_counter_ |-> 0]

\* Horse::initializeRandom on an existing horse, the shuffle leaving seq
Horse_initializeRandom(h, seq) ==
    [h EXCEPT !.solution_ = seq, !.best_solution_ = seq,
              !.fitness_ = calculateFitness(calculateMakespan(seq)),
              !.best_fitness_ = calculateFitness(calculateMakespan(seq))]

\* Horse::rejuvenate
rejuvenate(h) == [h EXCEPT !.stagnation_counter_ = 0]

\* Horse::isStagnant
isStagnant(h, max_stagnation) == h.stagnation_counter_ >= max_stagnation

\* Horse::setSolution
setSolution(h, seq) ==
    LET u == updateFitness([h EXCEPT !.solution_ = seq])
    IN  IF updateBestReturns(u)
        THEN [updateBest(u) EXCEPT !.stagnation_counter_ = 0]
        ELSE [u EXCEPT !.stagnation_counter_ = @ + 1]

\* the boolean values `randDouble() < rate` can take, rate in thousandths
Chance(rate) == IF rate <= 0 THEN {FALSE} ELSE IF rate >= 1000 THEN {TRUE} ELSE BOOLEAN

\* Horse::apply2OptSearch: the first swap (i < j, in loop order) that lowers
\* the makespan is kept
apply2OptSearch(seq) ==
    LET pairs == Pairs2Opt(Len(seq))
        better == {k \in 1..Len(pairs) :
                     calculateMakespan(SwapAt(seq, pairs[k][1] + 1, pairs[k][2] + 1))
                         < calculateMakespan(seq)}
        first == CHOOSE k \in better : \A l \in better : k <= l
    IN  IF better = {} THEN [seq |-> seq, improved |-> FALSE]
        ELSE [seq |-> SwapAt(seq, pairs[first][1] + 1, pairs[first][2] + 1), improved |-> TRUE]

\* Horse::applyInsertionSearch: the first relocation (i, j), i # j, in loop
\* order that lowers the makespan is kept
applyInsertionSearch(seq) ==
    LET n == Len(seq)
        better == {p \in LoopPairs(n) : calculateMakespan(Relocate(seq, p[1], p[2])) < calculateMakespan(seq)}
        first == CHOOSE p \in better :
                    \A q \in better : p[1] < q[1] \/ (p[1] = q[1] /\ p[2] <= q[2])
    IN  IF better = {} THEN [seq |-> seq, improved |-> FALSE]
        ELSE [seq |-> Relocate(seq, first[1], first[2]), improved |-> TRUE]

\* Horse::graze argument check
grazeThrows(intensity) == intensity <= 0 \/ intensity > 1000

\* Horse::graze with an accepted intensity; try2Opt and tryInsertion are the
\* outcomes of the two random tests
graze(h, try2Opt, tryInsertion) ==
    LET s1 == IF try2Opt THEN apply2OptSearch(h.solution_)
              ELSE [seq |-> h.solution_, improved |-> FALSE]
        s2 == IF tryInsertion THEN applyInsertionSearch(s1.seq)
              ELSE [seq |-> s1.seq, improved |-> FALSE]
        improved == s1.improved \/ s2.improved
    IN  [horse |-> IF improved THEN updateBest(updateFitness([h EXCEPT !.solution_ = s2.seq])) ELSE h,
         improved |-> improved]

grazeOutcomes(h) == {graze(h, a, b) : a \in BOOLEAN, b \in BOOLEAN}

\* the orders one createSwapNeighbor() or createInsertNeighbor() call can return
randomNeighbors(seq) ==
    LET P == 0..(Len(seq) - 1)
    IN  {SwapAt(seq, pos1 + 1, pos2 + 1) : pos1 \in P, pos2 \in P}
        \cup {IF from_pos # to_pos THEN Relocate(seq, from_pos, to_pos) ELSE seq :
                from_pos \in P, to_pos \in P}

RECURSIVE afterMoves(_, _)
afterMoves(S, num_moves) ==
    IF num_moves = 0 THEN S
    ELSE afterMoves(UNION {randomNeighbors(seq) : seq \in S}, num_moves - 1)

\* Horse::roam: the orders it can return
roam(h, exploration_rate) ==
    afterMoves({h.solution_}, Max(1, (exploration_rate * Len(h.solution_)) \div 2000))

\* every offspring orderCrossover / partiallyMappedCrossover can return
orderCrossovers(parent1, parent2) ==
    LET P == randInt(0, Len(parent1) - 1)
    IN  {orderCrossover(parent1, parent2, point1, point2) : point1 \in P, point2 \in P}

partiallyMappedCrossovers(parent1, parent2) ==
    LET size == Len(parent1)
        positions == randInt(0, size - 1) \X randInt(0, size - 1)
    IN  UNION {{partiallyMappedCrossover(parent1, parent2, draws) : draws \in SeqsOf(positions, num_swaps)} :
                 num_swaps \in randInt(1, pmxMaxSwaps(size))}

\* Horse::followLeader: the orders it can return
followLeader(h, leader, following_rate) ==
    (IF TRUE \in Chance(following_rate)
     THEN orderCrossovers(h.solution_, leader.best_solution_) ELSE {})
    \cup (IF FALSE \in Chance(following_rate)
          THEN partiallyMappedCrossovers(h.solution_, leader.best_solution_) ELSE {})

\* Horse::mateWith: the orders it can return
mateWith(h, mate, crossover_rate) ==
    (IF TRUE \in Chance(crossover_rate)
     THEN orderCrossovers(h.best_solution_, mate.best_solution_)
          \cup partiallyMappedCrossovers(h.best_solution_, mate.best_solution_)
     ELSE {})
    \cup (IF FALSE \in Chance(crossover_rate)
          THEN {h.best_solution_, mate.best_solution_} ELSE {})

\* Horse::mutate argument check
mutateThrows(mutation_rate) == mutation_rate < 0 \/ mutation_rate > 1000

\* Horse::mutate with an accepted rate: the horses it can leave
mutate(h, mutation_rate) ==
    (IF FALSE \in Chance(mutation_rate) THEN {h} ELSE {})
    \cup (IF TRUE \in Chance(mutation_rate)
          THEN {updateBest(updateFitness([h EXCEPT !.solution_ = seq])) :
                  seq \in randomNeighbors(h.solution_)}
          ELSE {})

----------------------------------------------------------------------------
(* HorseHerd. Each operation is an operator from the herd (horses_ as hs,   *)
(* leader_ as ld) to the set of results it can leave, one per outcome of    *)
(* its random draws: the horses, the leader, the value returned and whether *)
(* the call returned ("ok"), threw or never came back.                      *)

Herd(hs, ld, result) == [horses |-> hs, leader |-> ld, result |-> result, status |-> "ok"]

Failed(hs, ld, status) == [horses |-> hs, leader |-> ld, result |-> 0, status |-> status]

\* one choice per horse k out of outs[k]
RECURSIVE ChoicesUpTo(_, _)
ChoicesUpTo(outs, n) ==
    IF n = 0 THEN {<<>>}
    ELSE {Append(f, o) : f \in ChoicesUpTo(outs, n - 1), o \in outs[n]}

\* HorseHerd::getBestHorse: std::max_element returns the first of the best
getBestHorse(hs) ==
    CHOOSE i \in 1..Len(hs) :
        /\ \A j \in 1..Len(hs) : hs[j].best_fitness_ <= hs[i].best_fitness_
        /\ \A j \in 1..(i - 1) : hs[j].best_fitness_ < hs[i].best_fitness_

\* HorseHerd::getBestSolution
getBestSolution(hs) == hs[getBestHorse(hs)].best_solution_

\* HorseHerd::updateLeader: the leader is replaced by a copy of the best horse
\* only when that horse is strictly better; then the first horse whose best
\* makespan equals the leader's carries the flag
\* (of the copy only the two solutions and the best fitness are held; the
\* herd reads the best solution and its fitness)
LeaderOf(h) ==
    [solution_ |-> h.solution_, best_solution_ |-> h.best_solution_, best_fitness_ |-> h.best_fitness_]

leaderAfter_Latest(hs, ld) == LeaderOf(hs[getBestHorse(hs)])

leaderAfter(hs, ld) ==
    IF hs[getBestHorse(hs)].best_fitness_ > ld.best_fitness_
    THEN LeaderOf(hs[getBestHorse(hs)])
    ELSE ld

updateLeader(hs, ld) ==
    IF Len(hs) = 0 THEN Herd(hs, ld, FALSE)
    ELSE LET leader == leaderAfter(hs, ld)
             same == {i \in 1..Len(hs) : getBestMakespan(hs[i]) = getBestMakespan(leader)}
             marked == IF same = {} THEN 0 ELSE CHOOSE i \in same : \A j \in same : i <= j
         IN  Herd([i \in 1..Len(hs) |-> [hs[i] EXCEPT !.is_leader_ = (i = marked)]],
                  leader,
                  hs[getBestHorse(hs)].best_fitness_ > ld.best_fitness_)

\* the tail of the perform* operations: updateLeader when count > 0
afterPhase(hs, ld, count) ==
    LET updated == updateLeader(hs, ld)
    IN  IF count > 0 THEN Herd(updated.horses, updated.leader, count)
        ELSE Herd(hs, ld, count)

\* Solution::distanceTo
distanceTo(seq1, seq2) == Cardinality({i \in 1..Len(seq1) : seq1[i] # seq2[i]})

\* calculateDiversity dividing by the number of horses, not of pairs
calculateDiversity_PerHorse(hs) ==
    LET pairs == {p \in (1..Len(hs)) \X (1..Len(hs)) : p[1] < p[2]}
        RECURSIVE total(_)
        total(S) == IF S = {} THEN 0
                    ELSE LET p == CHOOSE q \in S : TRUE
                         IN  distanceTo(hs[p[1]].solution_, hs[p[2]].solution_) + total(S \ {p})
    IN  IF Len(hs) < 2 THEN 0
        ELSE (1000 * total(pairs)) \div (Len(hs[1].solution_) * Len(hs))

\* HorseHerd::calculateDiversity, in thousandths (rounded down): the mean over
\* the pairs of horses of distanceTo / number of jobs
calculateDiversity(hs) ==
    LET pairs == {p \in (1..Len(hs)) \X (1..Len(hs)) : p[1] < p[2]}
        RECURSIVE total(_)
        total(S) == IF S = {} THEN 0
                    ELSE LET p == CHOOSE q \in S : TRUE
                         IN  distanceTo(hs[p[1]].solution_, hs[p[2]].solution_) + total(S \ {p})
    IN  IF Len(hs) < 2 THEN 0
        ELSE (1000 * total(pairs)) \div (Len(hs[1].solution_) * Cardinality(pairs))

\* HorseHerd::getAverageFitness, in thousandths
getAverageFitness(hs) ==
    LET sum[i \in 0..Len(hs)] == IF i = 0 THEN 0 ELSE sum[i - 1] + hs[i].best_fitness_
    IN  IF Len(hs) = 0 THEN 0 ELSE (1000 * sum[Len(hs)]) \div Len(hs)

\* HorseHerd::performGrazing
performGrazing(hs, ld, intensity) ==
    IF Len(hs) > 0 /\ grazeThrows(intensity) THEN {Failed(hs, ld, "invalid_argument")}
    ELSE LET Out(i) == grazeOutcomes(hs[i])
         IN  {afterPhase([i \in 1..Len(hs) |-> f[i].horse], ld,
                         Cardinality({i \in 1..Len(hs) : f[i].improved})) :
                f \in ChoicesUpTo([k \in 1..Len(hs) |-> Out(k)], Len(hs))}

\* a candidate order is taken with setSolution only when its makespan is
\* below the horse's current one
accept(h, candidates) ==
    {[horse |-> setSolution(h, seq), improved |-> TRUE] :
        seq \in {c \in candidates : calculateMakespan(c) < getMakespan(h)}}
    \cup (IF \E c \in candidates : ~(calculateMakespan(c) < getMakespan(h))
          THEN {[horse |-> h, improved |-> FALSE]} ELSE {})

\* HorseHerd::performRoaming
performRoaming(hs, ld, roaming_rate, exploration_rate) ==
    LET Out(i) == (IF FALSE \in Chance(roaming_rate)
                   THEN {[horse |-> hs[i], improved |-> FALSE]} ELSE {})
                  \cup (IF TRUE \in Chance(roaming_rate)
                        THEN accept(hs[i], roam(hs[i], exploration_rate)) ELSE {})
    IN  {afterPhase([i \in 1..Len(hs) |-> f[i].horse], ld,
                    Cardinality({i \in 1..Len(hs) : f[i].improved})) :
           f \in ChoicesUpTo([k \in 1..Len(hs) |-> Out(k)], Len(hs))}

\* HorseHerd::performFollowing
performFollowing(hs, ld, following_rate) ==
    LET Out(i) == IF hs[i].is_leader_ THEN {[horse |-> hs[i], improved |-> FALSE]}
                  ELSE accept(hs[i], followLeader(hs[i], ld, following_rate))
    IN  {afterPhase([i \in 1..Len(hs) |-> f[i].horse], ld,
                    Cardinality({i \in 1..Len(hs) : f[i].improved})) :
           f \in ChoicesUpTo([k \in 1..Len(hs) |-> Out(k)], Len(hs))}

\* HorseHerd::tournamentSelection: the indices it can return, each the best
\* of some sample of min(3, size) distinct horses
tournamentSize == 3

tournamentSelection(hs) ==
    LET idx == 1..Len(hs)
        samples == {S \in SUBSET idx : Cardinality(S) = Min(tournamentSize, Len(hs))}
    IN  {i \in idx : \E S \in samples :
            i \in S /\ \A j \in S : hs[j].best_fitness_ <= hs[i].best_fitness_}

\* HorseHerd::selectForReplacement: the num_horses first indices by
\* ascending (best fitness, index)
weakRank(hs, i) ==
    Cardinality({j \in 1..Len(hs) :
        \/ hs[j].best_fitness_ < hs[i].best_fitness_
        \/ (hs[j].best_fitness_ = hs[i].best_fitness_ /\ j < i)})

selectForReplacement_Strongest(hs, num_horses) ==
    {i \in 1..Len(hs) : weakRank(hs, i) >= Len(hs) - Min(num_horses, Len(hs))}

selectForReplacement(hs, num_horses) ==
    {i \in 1..Len(hs) : weakRank(hs, i) < Min(num_horses, Len(hs))}

\* one mating of performMating from a herd with count offspring accepted so
\* far: the herds it can leave, or hung when the loop that re-draws parent 2
\* can never draw anything but parent 1; parents lists the pairs
\* (parent1_idx, parent2_idx) mated so far
mating(hs, count, parents, crossover_rate) ==
    LET winners == tournamentSelection(hs)
        weak_idx == CHOOSE i \in selectForReplacement(hs, 1) : TRUE
    IN  UNION {
          IF Len(hs) > 1 /\ winners = {parent1_idx}
          THEN {[horses |-> hs, count |-> count, parents |-> parents, hung |-> TRUE]}
          ELSE UNION {
                 {IF calculateMakespan(offspring) < getMakespan(hs[weak_idx])
                  THEN [horses |-> [hs EXCEPT ![weak_idx] = setSolution(hs[weak_idx], offspring)],
                        count |-> count + 1,
                        parents |-> Append(parents, <<parent1_idx, parent2_idx>>), hung |-> FALSE]
                  ELSE [horses |-> hs, count |-> count,
                        parents |-> Append(parents, <<parent1_idx, parent2_idx>>), hung |-> FALSE] :
                    offspring \in mateWith(hs[parent1_idx], hs[parent2_idx], crossover_rate)} :
                 parent2_idx \in IF Len(hs) > 1 THEN winners \ {parent1_idx} ELSE winners} :
          parent1_idx \in winners}

RECURSIVE matings(_, _, _)
matings(S, num_matings, crossover_rate) ==
    IF num_matings = 0 THEN S
    ELSE matings(UNION {IF st.hung THEN {st}
                        ELSE mating(st.horses, st.count, st.parents, crossover_rate) : st \in S},
                 num_matings - 1, crossover_rate)

\* HorseHerd::performMating
performMating(hs, ld, mating_rate, crossover_rate) ==
    {LET r == IF st.hung THEN Failed(st.horses, ld, "hung") ELSE afterPhase(st.horses, ld, st.count)
     IN  [horses |-> r.horses, leader |-> r.leader, result |-> r.result, status |-> r.status,
          parents |-> st.parents] :
       st \in matings({[horses |-> hs, count |-> 0, parents |-> <<>>, hung |-> FALSE]},
                      (Len(hs) * mating_rate) \div 2000, crossover_rate)}

\* HorseHerd::performMutation
performMutation(hs, ld, mutation_rate) ==
    IF Len(hs) > 0 /\ mutateThrows(mutation_rate) THEN {Failed(hs, ld, "invalid_argument")}
    ELSE LET Out(i) == mutate(hs[i], mutation_rate)
         IN  {afterPhase(f, ld, Cardinality({i \in 1..Len(hs) : getMakespan(f[i]) < getMakespan(hs[i])})) :
                f \in ChoicesUpTo([k \in 1..Len(hs) |-> Out(k)], Len(hs))}

\* HorseHerd::replaceWeakHorses with replacement_rate = num / den
replaceWeakHorses(hs, ld, num, den) ==
    LET num_replacements == (Len(hs) * num) \div den
        weak_indices == selectForReplacement(hs, num_replacements)
        Out(i) == IF i \in weak_indices THEN {NewHorse(seq) : seq \in Perms(getNumJobs)} ELSE {hs[i]}
    IN  IF num_replacements = 0 THEN {Herd(hs, ld, 0)}
        ELSE {Herd(updateLeader(f, ld).horses, updateLeader(f, ld).leader, num_replacements) :
                f \in ChoicesUpTo([k \in 1..Len(hs) |-> Out(k)], Len(hs))}

\* HorseHerd::rejuvenateStagnantHorses
rejuvenateStagnantHorses(hs, ld, max_stagnation) ==
    LET Out(i) == IF isStagnant(hs[i], max_stagnation)
                  THEN {Horse_initializeRandom(rejuvenate(hs[i]), seq) : seq \in Shuffles(hs[i].solution_)}
                  ELSE {hs[i]}
    IN  {afterPhase(f, ld, Cardinality({i \in 1..Len(hs) : isStagnant(hs[i], max_stagnation)})) :
           f \in ChoicesUpTo([k \in 1..Len(hs) |-> Out(k)], Len(hs))}

\* HorseHerd::sortByFitness: the orders std::sort can leave, horses of equal
\* fitness_ in any order
sortByFitness(hs) ==
    {s \in {[i \in 1..Len(hs) |-> hs[p[i] + 1]] : p \in Perms(Len(hs))} :
        \A i \in 1..(Len(hs) - 1) : s[i].fitness_ >= s[i + 1].fitness_}

\* HorseHerd::improveElite: the num_horses first horses of the sorted herd
\* graze at intensity 0.9
improveElite(hs, ld, num_horses) ==
    UNION {
      LET elite_count == Min(num_horses, Len(sorted))
          Out(i) == IF i <= elite_count THEN {g.horse : g \in grazeOutcomes(sorted[i])}
                    ELSE {sorted[i]}
      IN  {afterPhase(f, ld, Cardinality({i \in 1..Len(sorted) :
                                            getBestMakespan(f[i]) < getBestMakespan(sorted[i])})) :
             f \in ChoicesUpTo([k \in 1..Len(sorted) |-> Out(k)], Len(sorted))} :
      sorted \in sortByFitness(hs)}

\* the mutation rate of the i-th greedy horse of initialize, in thousandths
greedyMutationRate(i) == 100 * i

\* HorseHerd::initialize: num_random horses of random order, then the greedy
\* ones, the i-th of them (i > 0) mutated at rate 0.1 * i; then updateLeader.
\* The value of the result is num_random, the number of horses made by
\* initializeRandom, which the code logs
initialize(hs, herd_size, ld, random_ratio) ==
    LET num_random == (herd_size * random_ratio) \div 1000
        greedy(i) == i - num_random - 1
        throwing == {i \in (num_random + 1)..herd_size : greedy(i) > 0 /\ mutateThrows(greedyMutationRate(greedy(i)))}
        built == IF throwing = {} THEN herd_size
                 ELSE (CHOOSE i \in throwing : \A j \in throwing : i <= j) - 1
        Out(i) == IF i <= num_random THEN {NewHorse(seq) : seq \in Perms(getNumJobs)}
                  ELSE IF greedy(i) = 0 THEN {NewHorse(initializeGreedyOrder)}
                  ELSE mutate(NewHorse(initializeGreedyOrder), greedyMutationRate(greedy(i)))
    IN  IF random_ratio < 0 \/ random_ratio > 1000 THEN {Failed(hs, ld, "invalid_argument")}
        ELSE {IF throwing = {} THEN Herd(updateLeader(f, ld).horses, updateLeader(f, ld).leader, num_random)
              ELSE Failed(f, ld, "invalid_argument") :
                f \in ChoicesUpTo([k \in 1..built |-> Out(k)], built)}

----------------------------------------------------------------------------
(* A HorseHerd driven through its public operations in any order, with any  *)
(* accepted arguments.                                                      *)

MaxStagnationCount == 2

\* the instances the herds live on: three jobs on two machines with orders
\* of makespan 7 to 10, and two jobs on two machines with orders of makespan
\* 4 and 5
ThreeJobs == << <<1, 3>>, <<2, 1>>, <<3, 2>> >>

TwoJobs == << <<1, 2>>, <<2, 1>> >>

\* instance and herd size
HerdShapes == {<<TwoJobs, 1>>, <<TwoJobs, 2>>, <<TwoJobs, 3>>, <<ThreeJobs, 1>>}

\* rates and ratios, in thousandths
Rates == {0, 500, 1000}

RandomRatios == {0, 500, 800, 1000}

\* HorseHerd::HorseHerd: no horses yet, the leader a Horse of random order
InitHerd ==
    /\ \E shape \in HerdShapes : pt = shape[1] /\ herd_size_ = shape[2]
    /\ horses_ = <<>>
    /\ leader_ \in {LeaderOf(NewHorse(seq)) : seq \in Perms(Len(pt))}
    /\ diversity_ = 0
    /\ generation_ = 0
    /\ outcome = [op |-> "constructor", random_ratio |-> 0, result |-> "ok", value |-> 0,
                  parents |-> <<>>]
    /\ sol = NewSolution([i \in 1..Len(pt) |-> i - 1])
    /\ srch = NoSearch
    /\ xo = NoCrossover
    /\ NoOptimizer

\* the call of op returns, throws or hangs with one of the results; outcome
\* keeps how the call ended, of an initialize the random_ratio passed and the
\* number of random horses made, and of a performMating the number of
\* offspring accepted and the pairs of parents mated
HerdCall(op, random_ratio, results) ==
    /\ outcome.result # "hung"
    /\ \E r \in results :
          /\ \A i \in 1..Len(r.horses) : r.horses[i].stagnation_counter_ <= MaxStagnationCount
          /\ horses_' = r.horses
          /\ leader_' = r.leader
          /\ outcome' = [op |-> op, random_ratio |-> random_ratio, result |-> r.status,
                         value |-> IF op \in {"initialize", "performMating"} THEN r.result ELSE 0,
                         parents |-> IF op = "performMating" THEN r.parents ELSE <<>>]
    /\ UNCHANGED <<herd_size_, generation_>>
    /\ UNCHANGED <<pt, sol, srch, xo, parameters_, statistics_, pc, run>>

HerdInitialize ==
    /\ \E random_ratio \in RandomRatios :
          HerdCall("initialize", random_ratio,
                   initialize(horses_, herd_size_, leader_, random_ratio))
    /\ diversity_' = calculateDiversity(horses_')

HerdGrazing ==
    /\ \E intensity \in Rates : HerdCall("HorseHerd", 0, performGrazing(horses_, leader_, intensity))
    /\ UNCHANGED diversity_

HerdRoaming ==
    /\ \E roaming_rate \in Rates, exploration_rate \in Rates :
          HerdCall("HorseHerd", 0, performRoaming(horses_, leader_, roaming_rate, exploration_rate))
    /\ UNCHANGED diversity_

HerdFollowing ==
    /\ \E following_rate \in Rates : HerdCall("HorseHerd", 0, performFollowing(horses_, leader_, following_rate))
    /\ UNCHANGED diversity_

HerdMating ==
    /\ \E mating_rate \in Rates, crossover_rate \in Rates :
          HerdCall("HorseHerd", 0, performMating(horses_, leader_, mating_rate, crossover_rate))
    /\ UNCHANGED diversity_

HerdMutation ==
    /\ \E mutation_rate \in Rates : HerdCall("HorseHerd", 0, performMutation(horses_, leader_, mutation_rate))
    /\ UNCHANGED diversity_

\* HorseHerd::ageHorses: age_ and the abilities it scales are not held
HerdAging ==
    /\ HerdCall("HorseHerd", 0, {Herd(horses_, leader_, 0)})
    /\ UNCHANGED diversity_

HerdReplacement ==
    /\ \E replacement_rate \in Rates :
          HerdCall("HorseHerd", 0, replaceWeakHorses(horses_, leader_, replacement_rate, 1000))
    /\ UNCHANGED diversity_

HerdRejuvenation ==
    /\ \E max_stagnation \in 1..MaxStagnationCount :
          HerdCall("HorseHerd", 0, rejuvenateStagnantHorses(horses_, leader_, max_stagnation))
    /\ UNCHANGED diversity_

HerdElite ==
    /\ \E num_horses \in 0..herd_size_ : HerdCall("HorseHerd", 0, improveElite(horses_, leader_, num_horses))
    /\ UNCHANGED diversity_

HerdUpdateLeader ==
    /\ HerdCall("HorseHerd", 0, {updateLeader(horses_, leader_)})
    /\ UNCHANGED diversity_

\* HorseHerd::getBestHorse, and getBestSolution and HHOA::getBestSolution /
\* getBestMakespan, which call it: throws on an empty herd
HerdGetBestHorse ==
    /\ HerdCall("HorseHerd", 0,
                {IF Len(horses_) = 0 THEN Failed(horses_, leader_, "runtime_error")
                 ELSE Herd(horses_, leader_, getBestHorse(horses_))})
    /\ UNCHANGED diversity_

\* HorseHerd::getAverageFitness (getWorstFitness tests for the empty herd
\* in the same way): returns 0.0 on an empty herd
HerdGetAverageFitness ==
    /\ HerdCall("HorseHerd", 0, {Herd(horses_, leader_, getAverageFitness(horses_))})
    /\ UNCHANGED diversity_

HerdCalculateDiversity ==
    /\ outcome.result # "hung"
    /\ diversity_' = calculateDiversity(horses_)
    /\ outcome' = [op |-> "calculateDiversity", random_ratio |-> 0, result |-> "ok", value |-> 0,
                   parents |-> <<>>]
    /\ UNCHANGED <<herd_size_, horses_, leader_, generation_>>
    /\ UNCHANGED <<pt, sol, srch, xo, parameters_, statistics_, pc, run>>

NextHerd ==
    \/ HerdInitialize
    \/ HerdGrazing
    \/ HerdRoaming
    \/ HerdFollowing
    \/ HerdMating
    \/ HerdMutation
    \/ HerdAging
    \/ HerdReplacement
    \/ HerdRejuvenation
    \/ HerdElite
    \/ HerdUpdateLeader
    \/ HerdGetBestHorse
    \/ HerdGetAverageFitness
    \/ HerdCalculateDiversity

SpecHerd == InitHerd /\ [][NextHerd]_vars

----------------------------------------------------------------------------
(* Mating followed event by event: the herd is initialized, mutated and     *)
(* mated, and outcome keeps the parents of each mating.                     *)

MatingEvents ==
    /\ \E mating_rate \in Rates, crossover_rate \in Rates :
          HerdCall("performMating", 0, performMating(horses_, leader_, mating_rate, crossover_rate))
    /\ UNCHANGED diversity_

NextMating ==
    \/ HerdInitialize
    \/ HerdMutation
    \/ MatingEvents

SpecMating == InitHerd /\ [][NextMating]_vars

----------------------------------------------------------------------------
(* Herds of every size up to MaxHerdSize, initialized with any ratio. The   *)
(* large ones live on an instance of one job, where every horse has the     *)
(* same order.                                                              *)

MaxHerdSize == 13

OneJob == << <<1>> >>

\* ratios in thousandths, the accepted ones in steps of a tenth and one
\* rejected on each side
InitializeRatios == {100 * k : k \in 0..10} \cup {-1, 1001}

\* HorseHerd::HorseHerd for the sizes 1..MaxHerdSize
InitLargeHerd ==
    /\ \/ pt = OneJob /\ herd_size_ \in 1..MaxHerdSize
       \/ pt = TwoJobs /\ herd_size_ \in 1..2
    /\ horses_ = <<>>
    /\ leader_ \in {LeaderOf(NewHorse(seq)) : seq \in Perms(Len(pt))}
    /\ diversity_ = 0
    /\ generation_ = 0
    /\ outcome = [op |-> "constructor", random_ratio |-> 0, result |-> "ok", value |-> 0,
                  parents |-> <<>>]
    /\ sol = NewSolution([i \in 1..Len(pt) |-> i - 1])
    /\ srch = NoSearch
    /\ xo = NoCrossover
    /\ NoOptimizer

\* HorseHerd::initialize called with any ratio: diversity_ is computed only
\* when the call gets to its end
InitializeLargeHerd ==
    /\ \E random_ratio \in InitializeRatios :
          HerdCall("initialize", random_ratio,
                   initialize(horses_, herd_size_, leader_, random_ratio))
    /\ diversity_' = IF outcome'.result = "ok" THEN calculateDiversity(horses_') ELSE diversity_

NextLargeHerd ==
    \/ InitializeLargeHerd

SpecLargeHerd == InitLargeHerd /\ [][NextLargeHerd]_vars

----------------------------------------------------------------------------
(* One Horse through its own operations. The horse is horses_[1].           *)

\* Horse::initializeGreedy on an existing horse
Horse_initializeGreedy(h) == Horse_initializeRandom(h, initializeGreedyOrder)

\* the rates a caller may pass, one below and one above the valid range included
CallerRates == Rates \cup {-1, 1001}

InitHorse ==
    /\ pt \in {TwoJobs, ThreeJobs}
    /\ herd_size_ = 0
    /\ horses_ \in {<<NewHorse(seq)>> : seq \in Perms(Len(pt))}
    /\ leader_ = [solution_ |-> <<>>, best_solution_ |-> <<>>, best_fitness_ |-> 0]
    /\ diversity_ = 0
    /\ generation_ = 0
    /\ outcome = [op |-> "Horse", result |-> "ok"]
    /\ sol = NewSolution([i \in 1..Len(pt) |-> i - 1])
    /\ srch = NoSearch
    /\ xo = NoCrossover
    /\ NoOptimizer

\* the horse is left as h by the call op
HorseCall(op, h, result) ==
    /\ horses_' = <<h>>
    /\ outcome' = [op |-> op, result |-> result]
    /\ UNCHANGED <<pt, sol, srch, xo, herd_size_, leader_, diversity_, generation_, parameters_, statistics_, pc, run>>

HorseSetSolution ==
    \E seq \in Perms(getNumJobs) :
        /\ setSolution(horses_[1], seq).stagnation_counter_ <= MaxStagnationCount
        /\ HorseCall("setSolution", setSolution(horses_[1], seq), "ok")

HorseInitializeRandom ==
    \E seq \in Shuffles(horses_[1].solution_) :
        HorseCall("initializeRandom", Horse_initializeRandom(horses_[1], seq), "ok")

HorseInitializeGreedy ==
    HorseCall("initializeGreedy", Horse_initializeGreedy(horses_[1]), "ok")

HorseGraze ==
    \E intensity \in CallerRates :
        IF grazeThrows(intensity)
        THEN HorseCall("graze", horses_[1], "invalid_argument")
        ELSE \E g \in grazeOutcomes(horses_[1]) : HorseCall("graze", g.horse, "ok")

HorseMutate ==
    \E mutation_rate \in CallerRates :
        IF mutateThrows(mutation_rate)
        THEN HorseCall("mutate", horses_[1], "invalid_argument")
        ELSE \E h \in mutate(horses_[1], mutation_rate) : HorseCall("mutate", h, "ok")

\* Horse::increaseAge: only age_, grazing_ability_ and stamina_ change
HorseIncreaseAge == HorseCall("increaseAge", horses_[1], "ok")

HorseRejuvenate == HorseCall("rejuvenate", rejuvenate(horses_[1]), "ok")

NextHorse ==
    \/ HorseSetSolution
    \/ HorseInitializeRandom
    \/ HorseInitializeGreedy
    \/ HorseGraze
    \/ HorseMutate
    \/ HorseIncreaseAge
    \/ HorseRejuvenate

SpecHorse == InitHorse /\ [][NextHorse]_vars

----------------------------------------------------------------------------
(* HHOA: one run of optimize / optimizeToTarget on a constructed optimizer. *)
(* pc is the place the run has reached: "constructed" before the call, the  *)
(* phase of executeIteration about to run, "bookkeeping" for the rest of    *)
(* the loop body, and "returned", "threw" or "hung" at the end. Rates are   *)
(* in thousandths, products of rates rounded down.                          *)

MaxIterations == 2

\* HHOAParameters::isValid
HHOAParameters_isValid(p) ==
    /\ p.population_size > 0 /\ p.max_iterations > 0
    /\ p.grazing_intensity >= 0 /\ p.grazing_intensity <= 1000
    /\ p.roaming_rate >= 0 /\ p.roaming_rate <= 1000
    /\ p.exploration_rate >= 0 /\ p.exploration_rate <= 1000
    /\ p.following_rate >= 0 /\ p.following_rate <= 1000
    /\ p.mating_rate >= 0 /\ p.mating_rate <= 1000
    /\ p.crossover_rate >= 0 /\ p.crossover_rate <= 1000
    /\ p.mutation_rate >= 0 /\ p.mutation_rate <= 1000
    /\ p.replacement_rate >= 0 /\ p.replacement_rate <= 1000
    /\ p.max_stagnation > 0 /\ p.elite_count >= 0
    /\ p.termination_patience > 0

\* the default HHOAParameters, but for the population size and the maximum
\* number of iterations
DefaultParameters(population_size, max_iterations) ==
    [population_size |-> population_size, max_iterations |-> max_iterations,
     grazing_intensity |-> 500, roaming_rate |-> 300, exploration_rate |-> 300,
     following_rate |-> 700, mating_rate |-> 400, crossover_rate |-> 800,
     mutation_rate |-> 100, replacement_rate |-> 100, max_stagnation |-> 20,
     elite_improvement_freq |-> 10, elite_count |-> 3, diversity_threshold |-> 10,
     adaptive_parameters |-> TRUE, termination_patience |-> 100]

\* the configurations run: the defaults for each population size and maximum
\* number of iterations, and those with one or two settings changed
Configurations ==
    LET D == {DefaultParameters(population_size, max_iterations) :
                population_size \in 1..3, max_iterations \in 1..MaxIterations}
        D2 == {DefaultParameters(2, max_iterations) : max_iterations \in 1..MaxIterations}
    IN  {p \in D \cup {[p EXCEPT !.termination_patience = 1] : p \in D}
               \cup {[p EXCEPT !.max_stagnation = 1, !.adaptive_parameters = FALSE] : p \in D2}
               \cup {[p EXCEPT !.mating_rate = 1000] : p \in D2}
               \cup {[p EXCEPT !.grazing_intensity = 0] : p \in D2}
               \cup {[p EXCEPT !.replacement_rate = 1000, !.elite_improvement_freq = 1] : p \in D2} :
           HHOAParameters_isValid(p)}

\* HHOAStatistics{}
NoStatistics ==
    [iterations_executed |-> 0, leader_changes |-> 0, best_makespan_history |-> <<>>,
     diversity_history |-> <<>>, average_fitness_history |-> <<>>]

\* the run not started: whether a termination callback and an iteration
\* callback are registered, the arguments and locals of optimize, the last
\* value of shouldTerminate, the Solution returned, leader_replaced, the
\* number of times updateLeader has executed `leader_ = best_horse` since the
\* herd was initialized, observed, the iteration indices iteration_callback_
\* has been called with, and herd_call and replaced, the HorseHerd operation
\* the last step called and the number of horses it replaced by random ones
NoRun(termination_callback_, iteration_callback_) ==
    [mode |-> "none", iterations |-> 0, iteration |-> 0, stagnation_count |-> 0,
     best_makespan |-> 0, initial_makespan |-> 0, target_makespan |-> 0,
     termination_callback_ |-> termination_callback_, should_terminate |-> FALSE,
     iteration_callback_ |-> iteration_callback_, observed |-> <<>>,
     leader_replaced |-> 0, herd_call |-> "none", replaced |-> 0, returned |-> <<>>]

\* HHOA::HHOA
InitHHOA ==
    /\ parameters_ \in Configurations
    /\ pt \in {shape[1] : shape \in {s \in HerdShapes : s[2] = parameters_.population_size}}
    /\ herd_size_ = parameters_.population_size
    /\ horses_ = <<>>
    /\ leader_ \in {LeaderOf(NewHorse(seq)) : seq \in Perms(Len(pt))}
    /\ diversity_ = 0
    /\ generation_ = 0
    /\ statistics_ = NoStatistics
    /\ pc = "constructed"
    /\ run \in {NoRun(termination_callback_, iteration_callback_) :
                  termination_callback_ \in BOOLEAN, iteration_callback_ \in BOOLEAN}
    /\ sol = NewSolution([i \in 1..Len(pt) |-> i - 1])
    /\ srch = NoSearch
    /\ outcome = [op |-> "HHOA", result |-> "ok"]
    /\ xo = NoCrossover

\* the ratio HHOA::initialize leaves to HorseHerd::initialize, in thousandths
defaultRandomRatio == 800

\* the place after a herd call that returned, threw or hung
pcAfter(status, next) ==
    IF status = "ok" THEN next ELSE IF status = "hung" THEN "hung" ELSE "threw"

\* the loop test `iteration < iterations` once the run stands at iteration:
\* the next iteration starts, or finalize() and return getBestSolution()
LoopOrReturn(r) ==
    IF r.iteration < r.iterations
    THEN /\ pc' = "grazing"
         /\ run' = r
    ELSE /\ pc' = "returned"
         /\ run' = [r EXCEPT !.returned = getBestSolution(horses_')]

\* HHOA::initialize and the locals of the run set before the loop
StartRun(mode, iterations, target_makespan) ==
    /\ pc = "constructed"
    /\ statistics_' = NoStatistics
    /\ \E r \in initialize(horses_, herd_size_, leader_, defaultRandomRatio) :
          /\ horses_' = r.horses
          /\ leader_' = r.leader
          /\ diversity_' = calculateDiversity(r.horses)
          /\ IF r.status = "ok"
             THEN LoopOrReturn([run EXCEPT !.mode = mode, !.iterations = iterations,
                                           !.target_makespan = target_makespan,
                                           !.iteration = 0, !.stagnation_count = 0,
                                           !.best_makespan = calculateMakespan(getBestSolution(r.horses)),
                                           !.initial_makespan = calculateMakespan(getBestSolution(r.horses))])
             ELSE pc' = "threw" /\ run' = [run EXCEPT !.mode = mode]
    /\ UNCHANGED <<pt, sol, srch, outcome, xo, herd_size_, generation_, parameters_>>

\* HHOA::optimize()
Optimize == StartRun("optimize", parameters_.max_iterations, 0)

\* HHOA::optimize(int iterations)
OptimizeIterations ==
    \E iterations \in 0..(MaxIterations + 1) : StartRun("optimize", iterations, 0)

\* HHOA::optimizeToTarget(target_makespan, max_iterations)
TargetMakespans == {0, 4, 8}

OptimizeToTarget ==
    \E target_makespan \in TargetMakespans, max_iterations \in 0..MaxIterations :
        StartRun("optimizeToTarget",
                 IF max_iterations <= 0 THEN parameters_.max_iterations ELSE max_iterations,
                 target_makespan)

\* a phase of executeIteration that is one herd call; the call runs
\* updateLeader at most once, and updateLeader replaces leader_ only by a
\* horse of greater best fitness
Phase(at, call, results, next) ==
    /\ pc = at
    /\ \E r \in results :
          /\ horses_' = r.horses
          /\ leader_' = r.leader
          /\ pc' = pcAfter(r.status, next)
          /\ run' = [run EXCEPT !.leader_replaced = IF r.leader # leader_ THEN @ + 1 ELSE @,
                                !.herd_call = call,
                                !.replaced = IF call = "replaceWeakHorses" THEN r.result ELSE 0]
    /\ UNCHANGED <<pt, sol, srch, outcome, xo, herd_size_, diversity_, generation_, parameters_, statistics_>>

\* Phase 1 to 5
Grazing ==
    Phase("grazing", "performGrazing", performGrazing(horses_, leader_, parameters_.grazing_intensity), "roaming")

Roaming ==
    Phase("roaming", "performRoaming",
          performRoaming(horses_, leader_, parameters_.roaming_rate, parameters_.exploration_rate),
          "following")

Following ==
    Phase("following", "performFollowing", performFollowing(horses_, leader_, parameters_.following_rate), "mating")

Mating ==
    Phase("mating", "performMating",
          performMating(horses_, leader_, parameters_.mating_rate, parameters_.crossover_rate),
          "mutation")

Mutation ==
    Phase("mutation", "performMutation", performMutation(horses_, leader_, parameters_.mutation_rate), "aging")

\* Phase 6: ageHorses (age_ and the abilities it scales are not held)
Aging == Phase("aging", "ageHorses", {Herd(horses_, leader_, 0)}, "replacement")

\* the period of weak-horse replacement
replacementPeriod == 10

\* Phase 7: every tenth iteration
Replacement ==
    Phase("replacement",
          IF run.iteration % replacementPeriod = 0 THEN "replaceWeakHorses" ELSE "none",
          IF run.iteration % replacementPeriod = 0
          THEN replaceWeakHorses(horses_, leader_, parameters_.replacement_rate, 1000)
          ELSE {Herd(horses_, leader_, 0)},
          "rejuvenation")

\* Phase 8
Rejuvenation ==
    Phase("rejuvenation",
          IF run.iteration % parameters_.max_stagnation = 0
          THEN "rejuvenateStagnantHorses" ELSE "none",
          IF run.iteration % parameters_.max_stagnation = 0
          THEN rejuvenateStagnantHorses(horses_, leader_, parameters_.max_stagnation)
          ELSE {Herd(horses_, leader_, 0)},
          "elite")

\* Phase 9
EliteImprovement ==
    Phase("elite",
          IF run.iteration % parameters_.elite_improvement_freq = 0 THEN "improveElite" ELSE "none",
          IF run.iteration % parameters_.elite_improvement_freq = 0
          THEN improveElite(horses_, leader_, parameters_.elite_count)
          ELSE {Herd(horses_, leader_, 0)},
          "leader")

\* HHOA::applyDiversityPreservation: the number of horses it has replaced
\* (max(1, int(population_size * 0.2))) and the mutation rate it leaves
preservationReplacements(p) == Max(1, (p.population_size * 200) \div 1000)

preservationMutationRate(p) == Min(400, (p.mutation_rate * 1500) \div 1000)

\* Phase 10 and the end of executeIteration: updateLeader, calculateDiversity
\* and, below the diversity threshold, applyDiversityPreservation
LeaderAndDiversity ==
    /\ pc = "leader"
    /\ LET updated == updateLeader(horses_, leader_)
           diversity == calculateDiversity(updated.horses)
       IN  /\ diversity_' = diversity
           /\ IF diversity < parameters_.diversity_threshold
              THEN /\ \E r \in replaceWeakHorses(updated.horses, updated.leader,
                                                 preservationReplacements(parameters_),
                                                 parameters_.population_size) :
                         /\ horses_' = r.horses
                         /\ leader_' = r.leader
                         /\ run' = [run EXCEPT !.leader_replaced =
                                        @ + (IF updated.result THEN 1 ELSE 0)
                                          + (IF r.leader # updated.leader THEN 1 ELSE 0),
                                               !.herd_call = "replaceWeakHorses",
                                               !.replaced = r.result]
                   /\ parameters_' = [parameters_ EXCEPT
                                        !.mutation_rate = preservationMutationRate(parameters_)]
              ELSE /\ horses_' = updated.horses
                   /\ leader_' = updated.leader
                   /\ run' = [run EXCEPT !.leader_replaced = IF updated.result THEN @ + 1 ELSE @,
                                         !.herd_call = "calculateDiversity", !.replaced = 0]
                   /\ UNCHANGED parameters_
           /\ statistics_' = [statistics_ EXCEPT
                                !.leader_changes = IF updated.result THEN @ + 1 ELSE @]
    /\ pc' = "bookkeeping"
    /\ UNCHANGED <<pt, sol, srch, outcome, xo, herd_size_, generation_>>

\* HHOA::recordStatistics
recordStatistics(st, hs, diversity) ==
    [st EXCEPT !.best_makespan_history = Append(@, calculateMakespan(getBestSolution(hs))),
               !.diversity_history = Append(@, diversity),
               !.average_fitness_history = Append(@, getAverageFitness(hs))]

\* HHOA::updateAdaptiveParameters
updateAdaptiveParameters(p, iteration, diversity, stagnation_count) ==
    LET early == 10 * iteration < 3 * p.max_iterations
        late == 10 * iteration > 7 * p.max_iterations
        p1 == IF early
              THEN [p EXCEPT !.roaming_rate = Min(500, (@ * 1100) \div 1000),
                             !.exploration_rate = Min(500, (@ * 1100) \div 1000)]
              ELSE IF late
              THEN [p EXCEPT !.grazing_intensity = Min(900, (@ * 1050) \div 1000),
                             !.following_rate = Min(900, (@ * 1050) \div 1000)]
              ELSE p
        p2 == IF diversity < p1.diversity_threshold
              THEN [p1 EXCEPT !.mutation_rate = Min(300, (@ * 1200) \div 1000),
                              !.replacement_rate = Min(200, (@ * 1100) \div 1000)]
              ELSE IF diversity > 100
              THEN [p1 EXCEPT !.grazing_intensity = Min(900, (@ * 1100) \div 1000)]
              ELSE p1
    IN  IF stagnation_count > p2.max_stagnation \div 2
        THEN [p2 EXCEPT !.mutation_rate = Min(300, (@ * 1150) \div 1000)]
        ELSE p2

\* HHOA::shouldTerminate: the values it can return; callback_results are the
\* values the registered termination callback can return
shouldTerminate(p, iteration, stagnation_count, termination_callback_, callback_results) ==
    IF termination_callback_ THEN callback_results
    ELSE {iteration >= p.max_iterations - 1 \/ stagnation_count >= p.termination_patience}

\* the rest of the loop body of optimize: recordStatistics, the improvement
\* check, the adaptive update, the termination test, then either break or
\* nextGeneration and iterations_executed = iteration + 1, and the loop test
Bookkeeping ==
    /\ pc = "bookkeeping"
    /\ run.mode = "optimize"
    /\ UNCHANGED <<pt, sol, srch, outcome, xo, herd_size_, horses_, leader_, diversity_>>
    /\ LET current_makespan == calculateMakespan(getBestSolution(horses_))
           improved == current_makespan < run.best_makespan
           stagnation_count == IF improved THEN 0 ELSE run.stagnation_count + 1
           recorded == recordStatistics(statistics_, horses_, diversity_)
           r == [run EXCEPT !.best_makespan = IF improved THEN current_makespan ELSE @,
                            !.stagnation_count = stagnation_count,
                            !.herd_call = "none", !.replaced = 0,
                            !.observed = IF run.iteration_callback_
                                         THEN Append(@, run.iteration) ELSE @]
       IN  /\ parameters_' = IF parameters_.adaptive_parameters
                             THEN updateAdaptiveParameters(parameters_, run.iteration, diversity_,
                                                           stagnation_count)
                             ELSE parameters_
           /\ \E terminate \in shouldTerminate(parameters_', run.iteration, stagnation_count,
                                               run.termination_callback_, BOOLEAN) :
                 IF terminate
                 THEN /\ pc' = "returned"
                      /\ run' = [r EXCEPT !.should_terminate = TRUE,
                                          !.returned = getBestSolution(horses_)]
                      /\ statistics_' = recorded
                      /\ UNCHANGED generation_
                 ELSE /\ generation_' = generation_ + 1
                      /\ statistics_' = [recorded EXCEPT !.iterations_executed = run.iteration + 1]
                      /\ LoopOrReturn([r EXCEPT !.should_terminate = FALSE, !.iteration = @ + 1])

\* the rest of the loop body of optimizeToTarget
BookkeepingToTarget ==
    /\ pc = "bookkeeping"
    /\ run.mode = "optimizeToTarget"
    /\ UNCHANGED <<pt, sol, srch, outcome, xo, herd_size_, horses_, leader_, diversity_, parameters_>>
    /\ LET recorded == recordStatistics(statistics_, horses_, diversity_)
       IN  IF calculateMakespan(getBestSolution(horses_)) <= run.target_makespan
           THEN /\ pc' = "returned"
                /\ run' = [run EXCEPT !.herd_call = "none", !.replaced = 0,
                                      !.returned = getBestSolution(horses_)]
                /\ statistics_' = recorded
                /\ UNCHANGED generation_
           ELSE /\ generation_' = generation_ + 1
                /\ statistics_' = [recorded EXCEPT !.iterations_executed = run.iteration + 1]
                /\ LoopOrReturn([run EXCEPT !.observed = IF run.iteration_callback_
                                                           THEN Append(@, run.iteration) ELSE @,
                                             !.herd_call = "none", !.replaced = 0,
                                             !.iteration = @ + 1])

NextHHOA ==
    \/ Optimize
    \/ OptimizeIterations
    \/ OptimizeToTarget
    \/ Grazing
    \/ Roaming
    \/ Following
    \/ Mating
    \/ Mutation
    \/ Aging
    \/ Replacement
    \/ Rejuvenation
    \/ EliteImprovement
    \/ LeaderAndDiversity
    \/ Bookkeeping
    \/ BookkeepingToTarget

SpecHHOA == InitHHOA /\ [][NextHHOA]_vars

----------------------------------------------------------------------------
(* HHOA construction and setParameters, with configurations that are valid  *)
(* or have one setting off.  outcome keeps the call, the configuration      *)
(* passed and whether the call returned or threw.                           *)

\* the configurations passed: the defaults, and the defaults with one rate
\* or one size or count at, below or above its limits
CandidateParameters ==
    LET D == DefaultParameters(2, 1)
        rates == {"grazing_intensity", "roaming_rate", "exploration_rate", "following_rate",
                  "mating_rate", "crossover_rate", "mutation_rate", "replacement_rate"}
        counts == {"population_size", "max_iterations", "max_stagnation", "elite_count",
                   "elite_improvement_freq", "termination_patience"}
    IN  {D, DefaultParameters(3, 1)}
        \cup {[D EXCEPT ![f] = v] : f \in rates, v \in {-1, 0, 1000, 1001}}
        \cup {[D EXCEPT ![f] = v] : f \in counts, v \in {-1, 0, 1}}

\* no optimizer constructed yet
InitConfig ==
    /\ pt = TwoJobs
    /\ NoHerd
    /\ NoOptimizer
    /\ outcome = [op |-> "none", result |-> "ok", parameters |-> DefaultParameters(2, 1)]
    /\ sol = NewSolution([i \in 1..Len(pt) |-> i - 1])
    /\ srch = NoSearch
    /\ xo = NoCrossover

\* HHOA::HHOA(instance, parameters) with a valid instance: throws on a
\* configuration isValid rejects, else stores it and makes the herd, whose
\* constructor throws on a herd size that is not positive
Construct ==
    /\ pc = "none"
    /\ \E p \in CandidateParameters :
          IF HHOAParameters_isValid(p) /\ p.population_size > 0
          THEN /\ parameters_' = p
               /\ herd_size_' = p.population_size
               /\ leader_' \in {LeaderOf(NewHorse(seq)) : seq \in Perms(Len(pt))}
               /\ pc' = "constructed"
               /\ outcome' = [op |-> "HHOA", result |-> "ok", parameters |-> p]
          ELSE /\ outcome' = [op |-> "HHOA", result |-> "invalid_argument", parameters |-> p]
               /\ UNCHANGED <<parameters_, herd_size_, leader_, pc>>
    /\ UNCHANGED <<pt, sol, srch, xo, horses_, diversity_, generation_, statistics_, run>>

\* HHOA::setParameters: throws on a configuration isValid rejects, else
\* stores it and makes a new herd if the population size has changed
SetParameters ==
    /\ pc = "constructed"
    /\ \E p \in CandidateParameters :
          IF HHOAParameters_isValid(p)
          THEN /\ parameters_' = p
               /\ outcome' = [op |-> "setParameters", result |-> "ok", parameters |-> p]
               /\ IF herd_size_ # p.population_size
                  THEN /\ herd_size_' = p.population_size
                       /\ leader_' \in {LeaderOf(NewHorse(seq)) : seq \in Perms(Len(pt))}
                  ELSE UNCHANGED <<herd_size_, leader_>>
          ELSE /\ outcome' = [op |-> "setParameters", result |-> "invalid_argument",
                              parameters |-> p]
               /\ UNCHANGED <<parameters_, herd_size_, leader_>>
    /\ UNCHANGED <<pt, sol, srch, xo, horses_, diversity_, generation_, statistics_, pc, run>>

NextConfig ==
    \/ Construct
    \/ SetParameters

SpecConfig == InitConfig /\ [][NextConfig]_vars

----------------------------------------------------------------------------
(* C6: the makespan is the flow-shop recurrence *)

\* C[p][k] = processingTime(job at p, k)
\*           + max(C[p-1][k] if p > 0 else 0, C[p][k-1] if k > 0 else 0)
FlowShopC(seq, p, k) ==
    LET C[q \in 0..p, l \in 0..k] ==
            getProcessingTime(seq[q + 1], l)
              + Max(IF q > 0 THEN C[q - 1, l] ELSE 0, IF l > 0 THEN C[q, l - 1] ELSE 0)
    IN  C[p, k]

\* C6: for every instance and job order, getMakespan() returns C[n-1][m-1] of
\* the flow-shop recurrence; on the 4x3 example instance with the identity
\* order that value is 26.
C6_MakespanIsRecurrence ==
    outcome.op = "getMakespan" =>
        /\ outcome.result = FlowShopC(sol.job_sequence_, getNumJobs - 1, getNumMachines - 1)
        /\ (pt = ExampleInstance /\ sol.job_sequence_ = <<0, 1, 2, 3>>) => outcome.result = 26

\* the example instance has been evaluated on the identity order
C6_Witness ==
    /\ outcome.op = "getMakespan"
    /\ pt = ExampleInstance
    /\ sol.job_sequence_ = <<0, 1, 2, 3>>
    /\ sol.makespan_ = 26

----------------------------------------------------------------------------
(* C7: cache correctness *)

\* C7 (as claimed): whatever operations were applied to the Solution, local
\* searches included, the next getMakespan() returns the makespan of the
\* current job order: a cached value flagged as calculated is the makespan of
\* the order the object holds.
C7_NoStaleCache == getMakespanValue(sol) = calculateMakespan(sol.job_sequence_)

----------------------------------------------------------------------------
(* C5: crossover of two valid permutations *)

\* C5: for every instance size n >= 1, every pair of valid permutation
\* parents and every random draw, orderCrossover and partiallyMappedCrossover
\* return a valid permutation of [0,n) and do not fail.
C5_CrossoverValid ==
    xo.op # "none" => (~xo.threw /\ isValid(xo.offspring))

\* the same for instances of at least two jobs
C5_CrossoverValidFromTwoJobs ==
    (xo.op # "none" /\ getNumJobs >= 2) => (~xo.threw /\ isValid(xo.offspring))

----------------------------------------------------------------------------
(* C1: every solution of the herd stays a permutation *)

\* C1: in every state reached from HorseHerd::initialize by any sequence of
\* herd phases, every horse's current and personal best solution and the
\* leader's solutions are valid permutations of the jobs, and so is the
\* solution getBestSolution() hands to optimize() to return.
C1_HerdSolutionsValid ==
    /\ \A i \in 1..Len(horses_) :
          isValid(horses_[i].solution_) /\ isValid(horses_[i].best_solution_)
    /\ isValid(leader_.solution_)
    /\ isValid(leader_.best_solution_)
    /\ horses_ # <<>> => isValid(getBestSolution(horses_))

\* the part of C1 about the run: a Solution optimize() or optimizeToTarget()
\* has returned is a valid permutation
C1_ReturnedSolutionValid == pc = "returned" => isValid(run.returned)

\* an initialized herd of three in which a horse has been mutated away from
\* its personal best and has since accepted an order that did not beat it
C1_Witness ==
    /\ Len(horses_) = 3
    /\ \E i \in 1..Len(horses_) :
          /\ horses_[i].stagnation_counter_ > 0
          /\ getMakespan(horses_[i]) > getBestMakespan(horses_[i])
    /\ C1_HerdSolutionsValid

----------------------------------------------------------------------------
(* C3: the leader never regresses *)

\* C3: over the whole life of a herd, whatever operation runs (initialize
\* again, replacement, rejuvenation, ...), the leader's best makespan after
\* the operation is not greater than before it, and it is not greater than
\* the best makespan of any horse then in the herd.
C3_LeaderNeverRegresses ==
    [][/\ calculateMakespan(leader_'.best_solution_) <= calculateMakespan(leader_.best_solution_)
       /\ \A i \in 1..Len(horses_') :
             calculateMakespan(leader_'.best_solution_) <= getBestMakespan(horses_'[i])]_vars

\* the leader is strictly better than every horse now in the herd, one of
\* which has been through mutation and an accepted move: the horse the leader
\* was copied from is gone
C3_Witness ==
    /\ horses_ # <<>>
    /\ \E i \in 1..Len(horses_) : horses_[i].stagnation_counter_ > 0
    /\ \A i \in 1..Len(horses_) :
          calculateMakespan(leader_.best_solution_) < getBestMakespan(horses_[i])

----------------------------------------------------------------------------
(* C2, C4, C8, C9, C10: what a run returns and when it stops *)

\* a run of optimize() or optimize(iterations) has returned
OptimizeReturned == pc = "returned" /\ run.mode = "optimize"

\* C2: the Solution optimize() returns has a makespan not greater than that
\* of the best horse right after the herd was initialized.
C2_NeverRegresses ==
    OptimizeReturned => calculateMakespan(run.returned) <= run.initial_makespan

\* C4: the makespan of the Solution returned by optimize() equals the
\* leader's best makespan and is not greater than any value recorded in
\* best_makespan_history during the run.
C4_ReturnsBestFound ==
    OptimizeReturned =>
        /\ calculateMakespan(run.returned) = calculateMakespan(leader_.best_solution_)
        /\ \A k \in 1..Len(statistics_.best_makespan_history) :
              calculateMakespan(run.returned) <= statistics_.best_makespan_history[k]

\* a run of optimize() (the loop bound is max_iterations) without / with a
\* termination callback has started
PlainOptimize ==
    /\ run.mode = "optimize"
    /\ run.iterations = parameters_.max_iterations
    /\ ~run.termination_callback_

PredicateOptimize ==
    /\ run.mode = "optimize"
    /\ run.iterations = parameters_.max_iterations
    /\ run.termination_callback_

\* an iteration after the first is under way or about to start
FurtherIteration == run.iteration > 0 /\ pc \notin {"returned", "threw", "hung"}

\* C8: without a termination predicate optimize() stops after the first
\* iteration at which the executed iterations reach max_iterations or the
\* consecutive iterations without a new best reach termination_patience, it
\* runs a further iteration only if neither holds, it never runs more than
\* max_iterations iterations, and it always terminates: no phase of an
\* iteration enters a loop it cannot leave.
C8_StopsAtMaxOrPatience ==
    PlainOptimize =>
        /\ pc = "returned" =>
              \/ Len(statistics_.best_makespan_history) >= parameters_.max_iterations
              \/ run.stagnation_count >= parameters_.termination_patience
        /\ FurtherIteration =>
              /\ run.iteration < parameters_.max_iterations
              /\ run.stagnation_count < parameters_.termination_patience
        /\ Len(statistics_.best_makespan_history) <= parameters_.max_iterations
        /\ pc # "hung"

\* the same without the last conjunct
C8_StopsAtMaxOrPatienceUnlessHung ==
    PlainOptimize =>
        /\ pc = "returned" =>
              \/ Len(statistics_.best_makespan_history) >= parameters_.max_iterations
              \/ run.stagnation_count >= parameters_.termination_patience
        /\ FurtherIteration =>
              /\ run.iteration < parameters_.max_iterations
              /\ run.stagnation_count < parameters_.termination_patience
        /\ Len(statistics_.best_makespan_history) <= parameters_.max_iterations

\* C9: with a termination predicate, optimize() stops exactly at the first
\* iteration for which the predicate returns true: it has returned only if
\* the predicate's last answer was true (neither max_iterations nor the
\* patience stopped it), and it runs no iteration after a true answer.
C9_PredicateOverrides ==
    PredicateOptimize =>
        /\ pc = "returned" => run.should_terminate
        /\ FurtherIteration => ~run.should_terminate

\* what the code does instead: with a predicate the run returns when the
\* predicate answered true or when the loop of optimize() has counted up to
\* its bound, and the patience never stops it
C9_StoppedByPredicateOrLoopBound ==
    PredicateOptimize =>
        /\ pc = "returned" => (run.should_terminate \/ run.iteration >= run.iterations)
        /\ FurtherIteration => ~run.should_terminate

\* C10: after optimize() or optimizeToTarget() has returned,
\* iterations_executed is the number of iterations executed, which is the
\* length of each of the three history series.
C10_IterationsExecutedIsHistoryLength ==
    pc = "returned" =>
        /\ statistics_.iterations_executed = Len(statistics_.best_makespan_history)
        /\ Len(statistics_.diversity_history) = Len(statistics_.best_makespan_history)
        /\ Len(statistics_.average_fitness_history) = Len(statistics_.best_makespan_history)

----------------------------------------------------------------------------
(* C11: the leader-change counter *)

\* C11: at the end of a run statistics.leader_changes is the number of times
\* updateLeader has replaced the stored leader since the herd was
\* initialized, in whatever phase of whatever iteration it did so.
C11_LeaderChangesCounted ==
    pc = "returned" => statistics_.leader_changes = run.leader_replaced

----------------------------------------------------------------------------
(* C12: the mix of random and greedy horses *)

\* round(size x random_ratio), halves away from zero as std::round does,
\* random_ratio in thousandths
RoundedRandomCount(size, random_ratio) == (2 * size * random_ratio + 1000) \div 2000

\* C12: for every herd size >= 1 and random_ratio in [0,1], initialize leaves
\* exactly herd_size_ horses, round(herd_size_ x random_ratio) of them made
\* from random permutations and the others from the greedy order.
C12_RoundedRandomShare ==
    (outcome.op = "initialize" /\ outcome.result = "ok") =>
        /\ Len(horses_) = herd_size_
        /\ outcome.value = RoundedRandomCount(herd_size_, outcome.random_ratio)

\* what the code does: the number of random horses is herd_size_ x
\* random_ratio rounded down
C12_TruncatedRandomShare ==
    (outcome.op = "initialize" /\ outcome.result = "ok") =>
        /\ Len(horses_) = herd_size_
        /\ outcome.value = (herd_size_ * outcome.random_ratio) \div 1000

----------------------------------------------------------------------------
(* C13: configuration errors *)

\* the configurations the claim calls invalid: some rate outside [0,1] or
\* some size or count not positive
RateOutOfRange(rate) == rate < 0 \/ rate > 1000

ClaimedInvalid(p) ==
    \/ RateOutOfRange(p.grazing_intensity) \/ RateOutOfRange(p.roaming_rate)
    \/ RateOutOfRange(p.exploration_rate) \/ RateOutOfRange(p.following_rate)
    \/ RateOutOfRange(p.mating_rate) \/ RateOutOfRange(p.crossover_rate)
    \/ RateOutOfRange(p.mutation_rate) \/ RateOutOfRange(p.replacement_rate)
    \/ p.population_size <= 0 \/ p.max_iterations <= 0 \/ p.max_stagnation <= 0
    \/ p.elite_count <= 0 \/ p.elite_improvement_freq <= 0 \/ p.termination_patience <= 0

\* C13: the HHOA constructor and setParameters fail for every configuration
\* with a rate outside [0,1] or a size or count (population size, max
\* iterations, max stagnation, elite count, elite improvement frequency,
\* termination patience) that is not positive, and a failed setParameters
\* leaves the stored parameters and the herd as they were.
C13_InvalidConfigurationRejected ==
    [][/\ (outcome'.op \in {"HHOA", "setParameters"} /\ ClaimedInvalid(outcome'.parameters))
            => outcome'.result = "invalid_argument"
       /\ (outcome'.op = "setParameters" /\ outcome'.result = "invalid_argument")
            => UNCHANGED <<parameters_, herd_size_, horses_, leader_>>]_vars

\* the part the code keeps: what isValid rejects is rejected by both calls,
\* and a failed setParameters changes nothing
C13_RejectedByIsValid ==
    [][/\ (outcome'.op \in {"HHOA", "setParameters"} /\ ~HHOAParameters_isValid(outcome'.parameters))
            => outcome'.result = "invalid_argument"
       /\ (outcome'.op = "setParameters" /\ outcome'.result = "invalid_argument")
            => UNCHANGED <<parameters_, herd_size_, horses_, leader_>>]_vars

----------------------------------------------------------------------------
(* C14: operations on an empty population *)

\* C14: on a herd whose population is empty (before initialize), asking for
\* the best horse, solution or makespan and every other operation on the
\* population (updateLeader, the average or worst fitness, the perform*
\* phases, ...) fails: no such call returns normally.
C14_EmptyPopulationFails ==
    (horses_ = <<>> /\ outcome.op = "HorseHerd") => outcome.result # "ok"

----------------------------------------------------------------------------
(* C15: swapJobs *)

\* C15: swapJobs(i, j) with both positions in [0,n) exchanges the jobs at i
\* and j, leaves every other position as it was and keeps a valid Solution
\* valid; with a position outside [0,n) it fails with out_of_range and
\* leaves the job order and the cached makespan unchanged.
C15_SwapJobsExchangesOrFails ==
    [][outcome'.op = "swapJobs" =>
         LET i == outcome'.pos1
             j == outcome'.pos2
             n == getNumJobs
             before == sol.job_sequence_
             after == sol'.job_sequence_
         IN  IF i >= 0 /\ i < n /\ j >= 0 /\ j < n
             THEN /\ outcome'.result = "ok"
                  /\ Len(after) = Len(before)
                  /\ after[i + 1] = before[j + 1]
                  /\ after[j + 1] = before[i + 1]
                  /\ \A k \in 1..Len(before) : (k # i + 1 /\ k # j + 1) => after[k] = before[k]
                  /\ isValid(before) => isValid(after)
             ELSE /\ outcome'.result = "out_of_range"
                  /\ after = before
                  /\ sol'.makespan_ = sol.makespan_
                  /\ sol'.makespan_calculated_ = sol.makespan_calculated_]_vars

\* two different positions of a valid Solution whose makespan was cached
\* have been swapped
C15_Witness ==
    /\ outcome.op = "swapJobs"
    /\ outcome.result = "ok"
    /\ outcome.pos1 # outcome.pos2
    /\ isValid(sol.job_sequence_)
    /\ ~sol.makespan_calculated_

----------------------------------------------------------------------------
(* C16: diversity *)

\* the positions at which two job orders differ
DifferingPositions(a, b) == {k \in 1..Len(a) : a[k] # b[k]}

\* the mean over the unordered pairs of horses of (number of differing
\* positions) / n, in thousandths rounded down
MeanPairDistance(hs) ==
    LET pairs == {S \in SUBSET (1..Len(hs)) : Cardinality(S) = 2}
        differing[k \in 0..Len(hs), l \in 0..Len(hs)] ==
            IF k = 0 THEN 0
            ELSE IF l = 0 THEN differing[k - 1, Len(hs)]
            ELSE differing[k, l - 1]
                 + (IF l < k THEN Cardinality(DifferingPositions(hs[l].solution_, hs[k].solution_))
                    ELSE 0)
    IN  (1000 * differing[Len(hs), Len(hs)]) \div (getNumJobs * Cardinality(pairs))

\* C16: calculateDiversity() leaves 0 when the herd has fewer than 2 horses
\* and when all horses hold the same current job order; otherwise it leaves
\* the mean over all unordered pairs of horses of (number of differing
\* positions) / n, a value within [0,1].
C16_DiversityIsMeanPairDistance ==
    outcome.op = "calculateDiversity" =>
        /\ Len(horses_) < 2 => diversity_ = 0
        /\ (\A i, j \in 1..Len(horses_) : horses_[i].solution_ = horses_[j].solution_)
              => diversity_ = 0
        /\ Len(horses_) >= 2 => diversity_ = MeanPairDistance(horses_)
        /\ diversity_ >= 0 /\ diversity_ <= 1000

\* the diversity of three horses not all on the same order, strictly between
\* 0 and 1, has been calculated
C16_Witness ==
    /\ outcome.op = "calculateDiversity"
    /\ Len(horses_) = 3
    /\ diversity_ > 0
    /\ diversity_ < 1000

----------------------------------------------------------------------------
(* C17: monotonicity of the makespan *)

\* the step raises exactly one processing time and leaves the others alone
RaisesOneEntry ==
    \E job \in 1..Len(pt), machine \in 1..Len(pt[1]) :
        /\ pt'[job][machine] > pt[job][machine]
        /\ pt' = [pt EXCEPT ![job][machine] = pt'[job][machine]]

\* C17: for every fixed job order, increasing a single processing time, all
\* others unchanged, never decreases the makespan.
C17_MakespanMonotone ==
    [][RaisesOneEntry =>
         \A order \in Perms(Len(pt)) :
             calculateMakespan(order)' >= calculateMakespan(order)]_vars

\* an entry of the instance has been raised and the held order now has a
\* positive makespan
C17_Witness ==
    /\ outcome.op = "setProcessingTime"
    /\ outcome.raised
    /\ calculateMakespan(sol.job_sequence_) > 0

----------------------------------------------------------------------------
(* C18: the fitness fields of a Horse *)

\* fitness_ and best_fitness_ are the fitness of solution_ and best_solution_
FitnessConsistent(h) ==
    /\ h.fitness_ = calculateFitness(calculateMakespan(h.solution_))
    /\ h.best_fitness_ = calculateFitness(calculateMakespan(h.best_solution_))

\* C18 (as claimed): after every operation of a Horse, best_fitness_ is the
\* fitness of best_solution_ and fitness_ the fitness of solution_, and
\* best_solution_ is the best Solution the horse has ever held: best_fitness_
\* never decreases over the horse's life.
C18_BestNeverDecreases ==
    [][/\ FitnessConsistent(horses_'[1])
       /\ horses_'[1].best_fitness_ >= horses_[1].best_fitness_]_vars

\* what the code keeps: the two fitness fields always match their Solutions,
\* and best_fitness_ never decreases except through initializeRandom and
\* initializeGreedy
C18_FitnessFieldsConsistent ==
    [][/\ FitnessConsistent(horses_'[1])
       /\ outcome'.op \notin {"initializeRandom", "initializeGreedy"}
             => horses_'[1].best_fitness_ >= horses_[1].best_fitness_]_vars

----------------------------------------------------------------------------
(* C19: order crossover *)

\* parent A's jobs at the 0-based positions p1..p2 stay in place; the other
\* positions take, left to right, parent B's jobs in B's order, the jobs
\* already placed skipped
SegmentThenRest(A, B, p1, p2) ==
    LET segment == {A[p + 1] : p \in p1..p2}
        IsRest(job) == job \notin segment
        rest == SelectSeq(B, IsRest)
        before(p) == Cardinality({q \in 0..(p - 1) : q < p1 \/ q > p2})
    IN  [pos \in 1..Len(A) |->
            IF pos - 1 >= p1 /\ pos - 1 <= p2 THEN A[pos] ELSE rest[before(pos - 1) + 1]]

\* C19: order crossover with cut points p1 <= p2 copies parent A's jobs at
\* positions [p1,p2] to the same offspring positions and fills the remaining
\* positions left to right with parent B's jobs in B's order, skipping jobs
\* already placed; with p1=1, p2=2, A=[0,1,2,3], B=[3,2,1,0] the offspring is
\* [3,1,2,0].
C19_OrderCrossoverSegmentThenRest ==
    xo.op = "orderCrossover" =>
        /\ xo.point1 <= xo.point2
        /\ xo.offspring = SegmentThenRest(xo.parent1, xo.parent2, xo.point1, xo.point2)
        /\ (/\ xo.parent1 = <<0, 1, 2, 3>>
            /\ xo.parent2 = <<3, 2, 1, 0>>
            /\ xo.point1 = 1
            /\ xo.point2 = 2) => xo.offspring = <<3, 1, 2, 0>>

\* the example: A=[0,1,2,3] and B=[3,2,1,0] crossed at 1 and 2
C19_Witness ==
    /\ xo.op = "orderCrossover"
    /\ xo.parent1 = <<0, 1, 2, 3>>
    /\ xo.parent2 = <<3, 2, 1, 0>>
    /\ xo.point1 = 1
    /\ xo.point2 = 2
    /\ xo.offspring = <<3, 1, 2, 0>>

----------------------------------------------------------------------------
(* C20: the progress observer *)

\* the indices of the iterations executed so far: recordStatistics has run
\* once for each
ExecutedIterations ==
    [k \in 1..Len(statistics_.best_makespan_history) |-> k - 1]

\* C20: when an iteration callback is registered, a run of optimize or
\* optimizeToTarget that has returned has called it exactly once for every
\* executed iteration, in increasing order of the iteration index, the
\* iteration on which the run ended included.
C20_ObserverOncePerIteration ==
    (pc = "returned" /\ run.iteration_callback_) => run.observed = ExecutedIterations

----------------------------------------------------------------------------
(* C21: the phases of an iteration *)

\* the nine phases in the order claimed, then the update of leader and diversity
PhaseOrder ==
    <<"grazing", "roaming", "following", "mating", "mutation", "aging",
      "replacement", "rejuvenation", "elite", "leader">>

\* the step is a phase that came back
PhaseDone(k) == pc = PhaseOrder[k] /\ pc' \notin {"threw", "hung"}

\* C21 (as claimed): each iteration runs the phases in the fixed order
\* grazing, roaming, following, mating, mutation, aging, weak-horse
\* replacement, rejuvenation, elite improvement; horses are replaced by random
\* horses only on iterations with iteration mod 10 = 0, rejuvenation runs only
\* when iteration mod max_stagnation = 0, and elite improvement only when
\* iteration mod elite_improvement_freq = 0.
C21_PhaseOrderAndPeriods ==
    [][/\ \A k \in 1..9 : PhaseDone(k) => pc' = PhaseOrder[k + 1]
       /\ run'.replaced > 0 => run'.iteration % 10 = 0
       /\ run'.herd_call = "rejuvenateStagnantHorses"
             => run'.iteration % parameters_'.max_stagnation = 0
       /\ run'.herd_call = "improveElite"
             => run'.iteration % parameters_'.elite_improvement_freq = 0]_vars

\* what the code keeps: the order and the periods of the three periodic
\* phases themselves; the replacement inside applyDiversityPreservation is
\* left aside
C21_PeriodicPhasesOnly ==
    [][/\ \A k \in 1..9 : PhaseDone(k) => pc' = PhaseOrder[k + 1]
       /\ (run'.replaced > 0 /\ pc' = "rejuvenation") => run'.iteration % 10 = 0
       /\ run'.herd_call = "rejuvenateStagnantHorses"
             => run'.iteration % parameters_'.max_stagnation = 0
       /\ run'.herd_call = "improveElite"
             => run'.iteration % parameters_'.elite_improvement_freq = 0]_vars

----------------------------------------------------------------------------
(* C22: the stagnation counter *)

\* the step is one of ops and has changed the horse's current Solution
ChangesSolution(ops) ==
    outcome'.op \in ops /\ horses_'[1].solution_ # horses_[1].solution_

\* the fitness fields are recomputed and the stagnation counter is reset when
\* the personal best improved, incremented otherwise
StagnationFollowsBest ==
    /\ FitnessConsistent(horses_'[1])
    /\ horses_'[1].stagnation_counter_
         = IF horses_'[1].best_fitness_ > horses_[1].best_fitness_
           THEN 0 ELSE horses_[1].stagnation_counter_ + 1

\* C22 (as claimed): every operation that changes a horse's current Solution
\* (setSolution, graze, mutate) recomputes fitness_, compares it with
\* best_fitness_, and sets stagnation_counter_ to 0 if the personal best
\* improved and to its previous value plus one otherwise.
C22_StagnationCounted ==
    [][ChangesSolution({"setSolution", "graze", "mutate"}) => StagnationFollowsBest]_vars

\* what the code keeps: setSolution alone maintains the counter
C22_SetSolutionCounts ==
    [][ChangesSolution({"setSolution"}) => StagnationFollowsBest]_vars

----------------------------------------------------------------------------
(* C23: one mating event. With the herds and rates of HerdShapes and Rates  *)
(* performMating holds at most one event; the updateLeader that ends it may *)
(* move the is_leader_ flag, which is left aside.                           *)

\* the step is a performMating of exactly one mating event that came back
OneMating ==
    /\ outcome'.op = "performMating"
    /\ outcome'.result = "ok"
    /\ Len(outcome'.parents) = 1

Unflagged(h) == [h EXCEPT !.is_leader_ = FALSE]

\* the horses the step has changed
ChangedHorses ==
    {i \in 1..Len(horses_) : Unflagged(horses_'[i]) # Unflagged(horses_[i])}

\* C23: a mating event uses two distinct parents whenever the herd holds
\* more than one horse, and changes at most one horse: the horse with the
\* worst best fitness at that moment receives the offspring only if the
\* offspring's makespan is strictly smaller than that horse's current
\* makespan; every other horse and the size of the herd are left unchanged.
C23_MatingChangesOnlyTheWeakest ==
    [][OneMating =>
         /\ Len(horses_) > 1 => outcome'.parents[1][1] # outcome'.parents[1][2]
         /\ Len(horses_') = Len(horses_)
         /\ Cardinality(ChangedHorses) <= 1
         /\ outcome'.value = Cardinality(ChangedHorses)
         /\ \A i \in ChangedHorses :
               /\ \A j \in 1..Len(horses_) : horses_[j].best_fitness_ >= horses_[i].best_fitness_
               /\ calculateMakespan(horses_'[i].solution_) < calculateMakespan(horses_[i].solution_)]_vars

\* a mating of two distinct parents in a herd of three whose horses are not
\* all equally good has given its offspring to a horse
C23_Witness ==
    /\ outcome.op = "performMating"
    /\ outcome.result = "ok"
    /\ outcome.value = 1
    /\ Len(horses_) = 3
    /\ outcome.parents[1][1] # outcome.parents[1][2]
    /\ \E i, j \in 1..3 : horses_[i].best_fitness_ # horses_[j].best_fitness_

----------------------------------------------------------------------------
(* C24: first improvement in Solution::apply2Opt *)

\* the orders one swap of two positions away
OneSwapAway(seq) == {SwapAt(seq, p[1] + 1, p[2] + 1) : p \in LoopPairs(Len(seq))}

\* C24 (as claimed): a call of the 2-opt search applies at most one move: it
\* returns true right after the first swap that strictly lowers the makespan,
\* the order one swap away from the one before, and otherwise returns false
\* with the job order unchanged.
C24_FirstImprovement ==
    [][outcome'.op = "apply2Opt" =>
         IF outcome'.result
         THEN sol'.job_sequence_ \in OneSwapAway(sol.job_sequence_)
         ELSE sol'.job_sequence_ = sol.job_sequence_]_vars

----------------------------------------------------------------------------
(* C25: the neighbourhood of the insertion search *)

\* the orders obtained by removing the job at one position and putting it at
\* any other position, the last included
SingleRelocations(seq) ==
    {InsertAt(EraseAt(seq, p[1]), p[2], seq[p[1] + 1]) : p \in LoopPairs(Len(seq))}

\* C25 (as claimed): the insertion search returns false only if no order
\* obtained by removing one job and re-inserting it at any other position,
\* the last included, has a strictly smaller makespan than the current order;
\* a relocation from position i to position j puts the moved job at j.
C25_InsertionSearchExhaustive ==
    [][/\ (srch.pc = "loop" /\ srch'.pc = "idle" /\ ~outcome'.result) =>
            \A r \in SingleRelocations(sol'.job_sequence_) :
                calculateMakespan(r) >= calculateMakespan(sol'.job_sequence_)
       /\ (srch.pc = "loop" /\ srch'.pc = "moved") =>
            sol'.job_sequence_[srch.j + 1] = sol.job_sequence_[srch.i + 1]]_vars

\* the first half alone
C25_NoBetterRelocationLeft ==
    [][(srch.pc = "loop" /\ srch'.pc = "idle" /\ ~outcome'.result) =>
            \A r \in SingleRelocations(sol'.job_sequence_) :
                calculateMakespan(r) >= calculateMakespan(sol'.job_sequence_)]_vars

----------------------------------------------------------------------------
(* C26: adaptive parameter control *)

\* the rates updateAdaptiveParameters may scale, with their caps in thousandths
AdaptiveCaps ==
    [roaming_rate |-> 500, exploration_rate |-> 500, grazing_intensity |-> 900,
     following_rate |-> 900, mutation_rate |-> 300, replacement_rate |-> 200]

\* the step is the part of optimize's loop body that calls updateAdaptiveParameters
AdaptiveUpdate ==
    /\ pc = "bookkeeping"
    /\ run.mode = "optimize"
    /\ parameters_.adaptive_parameters

\* C26 (as claimed): one call of updateAdaptiveParameters never decreases any
\* rate, each rate it changes ends at or below its cap, and all rates stay
\* in [0,1].
C26_AdaptiveOnlyScalesUp ==
    [][AdaptiveUpdate =>
         \A f \in DOMAIN AdaptiveCaps :
             /\ parameters_'[f] >= parameters_[f]
             /\ parameters_'[f] # parameters_[f] => parameters_'[f] <= AdaptiveCaps[f]
             /\ parameters_'[f] >= 0 /\ parameters_'[f] <= 1000]_vars

\* what the code keeps: a rate it changes ends at or below its cap, and all
\* rates stay in [0,1]
C26_AdaptiveWithinCaps ==
    [][AdaptiveUpdate =>
         \A f \in DOMAIN AdaptiveCaps :
             /\ parameters_'[f] # parameters_[f] => parameters_'[f] <= AdaptiveCaps[f]
             /\ parameters_'[f] >= 0 /\ parameters_'[f] <= 1000]_vars

----------------------------------------------------------------------------
(* C27: termination of performMating *)

\* C27 (as claimed): performMating always terminates: for every herd size
\* >= 1, every mating rate in [0,1] and every distribution of best fitness
\* values, a unique best horse in a herd of 2 or 3 included, the loop that
\* re-draws parent 2 until it differs from parent 1 is left.
C27_MatingTerminates ==
    outcome.op = "performMating" => outcome.result # "hung"

----------------------------------------------------------------------------
(* C28: initialize and the number of greedy horses *)

\* C28 (as claimed): HorseHerd::initialize(random_ratio) completes without
\* raising an error for every herd size >= 1 and every random_ratio in
\* [0,1], however many greedy horses result.
C28_InitializeCompletes ==
    (outcome.op = "initialize" /\ outcome.random_ratio \in 0..1000) => outcome.result = "ok"

----------------------------------------------------------------------------
(* C29: the configurations isValid accepts *)

\* C29 (as claimed): every configuration accepted by HHOAParameters::isValid
\* can be run: on a valid instance no phase of executeIteration raises an
\* argument error or divides by zero, at any iteration and after any
\* sequence of adaptive updates.
C29_AcceptedConfigurationsRun ==
    HHOAParameters_isValid(parameters_) => pc # "threw"

----------------------------------------------------------------------------
(* C30: the configuration of a run without adaptive parameter control *)

\* C30 (as claimed): with adaptive parameter control disabled, a run leaves
\* the configuration unchanged: no step of optimize() changes a rate of
\* parameters_, mutation_rate included, so each has the same value after
\* the run as before it.
C30_ConfigurationKept ==
    [][~parameters_.adaptive_parameters => parameters_' = parameters_]_vars

====
